---- MODULE Spec2Model ----
(***************************************************************************)
(* A model of asm-lsp's reference ingestion (src/src/x86_parser.rs): the   *)
(* XML pass of the three parsers, the name indices built over their        *)
(* output, and the supplementary-URL step of populate_instructions with    *)
(* its cache file and network fetch; and of what src/src/test.rs does with *)
(* them, the snapshot comparison and the hover request.                    *)
(*                                                                         *)
(* Spec      the name indices: the collections are loaded, then the index  *)
(*           builders run in the order of init_test_store.                 *)
(* SpecDocs  process runs that ingest instruction documents, with the      *)
(*           cache file, the network and the --cache-refresh flag.         *)
(* SpecArchs the instruction index populated one architecture at a time,   *)
(*           in every order.                                               *)
(* SpecParse one call of a parser on one document: repeated names, forms,  *)
(*           Encoding elements, attribute values the parsers do not know.  *)
(* SpecSnapshot  the serialized_*_are_up_to_date tests of src/src/test.rs: *)
(*           a snapshot is written, read back and compared with the        *)
(*           records parsed again.                                         *)
(* SpecHover test_hover of src/src/test.rs: the indices are built, then    *)
(*           one hover request is answered, a lookup at a time.            *)
(* SpecCursor  test_hover from the source with its cursor marker: the      *)
(*           words under the cursor are resolved, then the lookups follow. *)
(* SpecServe init_global_info under a configuration, init_test_store, and  *)
(*           one completion request of test_autocomplete.                  *)
(* SpecFilter  the target filter of init_global_info on a deserialized     *)
(*           collection, applied once and then again.                      *)
(* SpecConcurrent  hover and completion requests in flight together on     *)
(*           one store, their steps interleaved.                           *)
(* SpecCacheDir  one get_cache_dir call, over the environment variable,    *)
(*           the directories that exist and the home directory.            *)
(* SpecElements  one call of a parser on a document given element by       *)
(*           element: Operand, ISA, Encoding and timing elements in and    *)
(*           between forms, elements written as empty-element tags.        *)
(* SpecVector  populate_name_to_instruction_map on any vector of one       *)
(*           architecture, called once and then again.                     *)
(* SpecCache get_docs_body calls over process runs, with the cache path    *)
(*           resolved by get_cache_dir and the cache file writable or not. *)
(***************************************************************************)
EXTENDS Integers, Sequences, FiniteSets, TLC

VARIABLES
    instructions,           \* GlobalInfo.*_instructions: arch -> Vec<Instruction>
    registers,              \* GlobalInfo.*_registers: arch -> Vec<Register>
    directives,             \* GlobalInfo.gas_directives: assembler -> Vec<Directive>
    names_to_instructions,  \* NameToInstructionMap: (arch, name) -> &Instruction
    names_to_registers,     \* NameToRegisterMap: (arch, name) -> &Register
    names_to_directives,    \* NameToDirectiveMap: (assembler, name) -> &Directive
    pc,                     \* position in init_test_store
    cache_refresh,          \* args().any(|arg| arg.contains("--cache-refresh"))
    cache_dir,              \* whether get_cache_dir() resolves a directory
    cache_env,              \* the environment get_cache_dir runs in, and what it returned
    cache_file,             \* contents of <cache dir>/x86_instr_docs.html, or None
    web,                    \* the page the documentation server serves
    fetches,                \* network requests made in this process run
    ingestions,             \* populate_instructions calls made in this process run
    gdb,                    \* what the latest get_docs_body call did
    xml_pass,               \* instructions_map as the XML pass of the latest call left it
    result,                 \* what the latest populate_instructions call returned
    document,               \* the reference document handed to a parser, and by which call
    snapshot,               \* the bytes of a shipped serialized collection, or None
    hover,                  \* the get_hover_resp call in progress: its inputs and what it did
    config,                 \* TargetConfig.assemblers, as init_global_info uses it
    completion_items,       \* GlobalVars.*_completion_items
    cursor,                 \* the document and position of the request of test_hover
    requests                \* the requests in flight on one store, and what each did

vars == <<instructions, registers, directives, names_to_instructions,
          names_to_registers, names_to_directives, pc, cache_refresh, cache_dir, cache_env,
          cache_file, web, fetches, ingestions, gdb, xml_pass, result, document,
          snapshot, hover, config, completion_items, cursor, requests>>

index_vars == <<instructions, registers, directives, names_to_instructions,
                names_to_registers, names_to_directives, pc>>

docs_vars == <<cache_refresh, cache_dir, cache_env, cache_file, web, fetches, ingestions,
               gdb, xml_pass, result, document>>

serve_vars == <<config, completion_items, cursor, requests>>

test_vars == <<snapshot, hover, serve_vars>>

(***************************************************************************)
(* Bounds of the model.                                                    *)
(***************************************************************************)
MaxEntries == 2     \* elements in one reference document
MaxCells == 3       \* <td> cells in a supplementary body
MaxIngestions == 2  \* populate_instructions calls in one process run
MaxForms == 2       \* InstructionForm elements in one Instruction element
MaxEncodings == 2   \* Encoding elements in one InstructionForm element
MaxRequests == 2    \* requests in flight together on one store

\* Option<T>: None, or Some(x).
None == <<>>

Some(x) == <<x>>

IsSome(o) == o # None

Unwrap(o) == o[1]

(***************************************************************************)
(* Names are strings over a two-letter alphabet in both cases, so that a   *)
(* name, its upper-case and its lower-case form can be three different     *)
(* strings.                                                                *)
(***************************************************************************)
Chars == {"a", "A"}

UpperChar(c) == IF c = "a" THEN "A" ELSE c

LowerChar(c) == IF c = "A" THEN "a" ELSE c

to_uppercase(s) == [i \in DOMAIN s |-> UpperChar(s[i])]

to_lowercase(s) == [i \in DOMAIN s |-> LowerChar(s[i])]

StringsOfLen(n) == [1..n -> Chars]

\* Canonical names: one or two characters.
Names == StringsOfLen(1) \cup StringsOfLen(2)

ShortNames == StringsOfLen(1)

Range(s) == {s[i] : i \in DOMAIN s}

Archs == {"X86", "X86_64", "Z80"}

Assemblers == {"Gas"}

(***************************************************************************)
(* Maps (HashMap) are functions over the set of their keys.                *)
(***************************************************************************)
EmptyMap == [k \in {} |-> None]

\* HashMap::insert, were it to keep what the key was bound to.
InsertKeepingFirst(m, k, v) ==
    [x \in (DOMAIN m) \cup {k} |-> IF x \in DOMAIN m THEN m[x] ELSE v]

\* HashMap::insert: binds the key, replacing what it was bound to.
Insert(m, k, v) == [x \in (DOMAIN m) \cup {k} |-> IF x = k THEN v ELSE m[x]]

\* HashMap::entry(k).or_insert_with(v): binds the key only when it is unbound.
OrInsert(m, k, v) == IF k \in DOMAIN m THEN m ELSE Insert(m, k, v)

\* HashMap::into_values().collect(): the values in an arbitrary order.
IntoValues(m) ==
    {v \in [1..Cardinality(DOMAIN m) -> {m[k] : k \in DOMAIN m}] :
        \A i, j \in DOMAIN v : v[i] = v[j] => i = j}

(***************************************************************************)
(* The records of crate::types, with the fields the indices and the URL    *)
(* step read.                                                              *)
(***************************************************************************)
\* Arch::from_str(..).ok()
ArchFromStr(s) ==
    CASE s = "x86" -> Some("X86")
      [] s = "x86-64" -> Some("X86_64")
      [] s = "z80" -> Some("Z80")
      [] OTHER -> None

\* Assembler::from_str(..).ok()
AssemblerFromStr(s) == IF s = "gas" THEN Some("Gas") ELSE None

InstructionDefault ==
    [name |-> <<>>, alt_names |-> <<>>, forms |-> <<>>, url |-> None, arch |-> None]

InstructionFormDefault ==
    [gas_name |-> None, go_name |-> None, z80_name |-> None,
     cancelling_inputs |-> None, z80_opcode |-> None,
     operands |-> <<>>, isa |-> None, z80_timing |-> None]

\* Z80TimingInfo::default()
Z80TimingInfoDefault == "default"

\* Z80Timing::default()
Z80TimingDefault ==
    [z80 |-> Z80TimingInfoDefault, z80_plus_m1 |-> Z80TimingInfoDefault,
     r800 |-> Z80TimingInfoDefault, r800_plus_wait |-> Z80TimingInfoDefault]

\* Z80TimingInfo::from_str(..), as an Option: a number of cycles.
Z80TimingInfoFromStr(s) == IF s \in {"4", "5", "7", "11"} THEN Some(s) ELSE None

\* ISA::from_str(..), as an Option
ISAFromStr(s) == IF s \in {"MMX", "SSE2"} THEN Some(s) ELSE None

\* OperandType::from_str(..), as an Option
OperandTypeFromStr(s) == IF s \in {"r8", "imm8", "k"} THEN Some(s) ELSE None

\* str::parse::<usize>() and str::parse::<u32>(), as an Option
ParseUnsigned(s) ==
    CASE s = "0" -> Some(0) [] s = "1" -> Some(1) [] s = "2" -> Some(2) [] OTHER -> None

RegisterDefault ==
    [name |-> <<>>, alt_names |-> <<>>, arch |-> None, reg_type |-> None, width |-> None,
     flag_info |-> <<>>]

\* RegisterBitInfo::default()
RegisterBitInfoDefault == [bit |-> 0, label |-> ""]

DirectiveDefault ==
    [name |-> <<>>, alt_names |-> <<>>, assembler |-> None, deprecated |-> FALSE,
     signatures |-> <<>>]

\* RegisterType::from_str(..), as an Option
RegisterTypeFromStr(s) == IF s \in {"General Purpose Register", "Pointer Register"}
                          THEN Some(s) ELSE None

\* RegisterWidth::from_str(..), as an Option
RegisterWidthFromStr(s) == IF s \in {"8 bits", "16 bits"} THEN Some(s) ELSE None

\* Instruction::push_form
push_form(instruction, form) ==
    [instruction EXCEPT !.forms = Append(@, form)]

\* Register::push_flag
push_flag(register, flag) ==
    [register EXCEPT !.flag_info = Append(@, flag)]

\* quick_xml::escape::unescape, of the values the documents carry.
unescape(s) == IF s = "&lt;" THEN "<" ELSE s

\* The names a form carries, in the order gas, go, z80.
FormNames(f) == f.gas_name \o f.go_name \o f.z80_name

RECURSIVE FormsNames(_)
FormsNames(forms) ==
    IF forms = <<>> THEN <<>> ELSE FormNames(Head(forms)) \o FormsNames(Tail(forms))

\* Instruction::get_primary_names: the canonical name.
get_primary_names(instruction) == <<instruction.name>>

\* Instruction::get_associated_names: the case variants and the names of the forms.
get_associated_names(instruction) ==
    instruction.alt_names \o FormsNames(instruction.forms)

\* Register::get_associated_names: the canonical name, then the alternate names.
register_get_associated_names(register) == <<register.name>> \o register.alt_names

\* Directive::get_associated_names: the canonical name, then the alternate names.
directive_get_associated_names(directive) == <<directive.name>> \o directive.alt_names

(***************************************************************************)
(* The XML pass of the parsers: a forward walk over the events of the      *)
(* document, with one record under construction and one form under         *)
(* construction, committed into a name-keyed map on the closing element.   *)
(***************************************************************************)
Start(tag, attrs) == [ev |-> "Start", tag |-> tag, attrs |-> attrs]

End(tag) == [ev |-> "End", tag |-> tag, attrs |-> None]

\* The event of a self-closing element.
Empty(tag, attrs) == [ev |-> "Empty", tag |-> tag, attrs |-> attrs]

InstrParserInit ==
    [instructions_map |-> EmptyMap,
     curr_instruction |-> InstructionDefault,
     curr_instruction_form |-> InstructionFormDefault,
     arch |-> None,
     outcome |-> "Ok"]

\* The start of an Instruction element, were the instruction under
\* construction not replaced by a default one.
NewInstructionKeepingForms(st, attrs) ==
    [st.curr_instruction EXCEPT
        !.arch = st.arch,
        !.alt_names = <<to_uppercase(attrs.name), to_lowercase(attrs.name)>>,
        !.name = attrs.name]

\* The start of an Instruction element: a default instruction with the
\* architecture read so far and the names of the name attribute.
NewInstruction(st, attrs) ==
    [InstructionDefault EXCEPT
        !.arch = st.arch,
        !.alt_names = <<to_uppercase(attrs.name), to_lowercase(attrs.name)>>,
        !.name = attrs.name]

\* The Operand built from the attributes of an Operand element: the type is
\* OperandType::k when there is no type attribute; None when the type is
\* unknown, input or output is neither "true" nor "false", or extended-size
\* is not a number.
OperandOf(attrs) ==
    LET type_ == IF attrs.type = None THEN Some("k")
                 ELSE OperandTypeFromStr(Unwrap(attrs.type))
        size == IF attrs.extended_size = None THEN Some(None)
                ELSE IF ParseUnsigned(Unwrap(attrs.extended_size)) = None THEN None
                ELSE Some(ParseUnsigned(Unwrap(attrs.extended_size)))
    IN  IF \/ type_ = None
           \/ attrs.input \notin {None, Some("true"), Some("false")}
           \/ attrs.output \notin {None, Some("true"), Some("false")}
           \/ size = None
        THEN None
        ELSE Some([type_ |-> Unwrap(type_),
                   input |-> IF attrs.input = None THEN None
                             ELSE Some(attrs.input = Some("true")),
                   output |-> IF attrs.output = None THEN None
                              ELSE Some(attrs.output = Some("true")),
                   extended_size |-> Unwrap(size)])

\* The field of the timing table each timing element sets.
TimingField ==
    [TimingZ80 |-> "z80", TimingZ80M1 |-> "z80_plus_m1",
     TimingR800 |-> "r800", TimingR800Wait |-> "r800_plus_wait"]

\* A timing element, were it to start a new table each time.
SetTimingFresh(form, field, timing) ==
    [form EXCEPT !.z80_timing = Some([Z80TimingDefault EXCEPT ![field] = timing])]

\* A timing element: the field of the table of the form under construction
\* is set, in a table of defaults when the form has none yet.
SetTiming(form, field, timing) ==
    IF IsSome(form.z80_timing)
    THEN [form EXCEPT !.z80_timing = Some([Unwrap(@) EXCEPT ![field] = timing])]
    ELSE [form EXCEPT !.z80_timing = Some([Z80TimingDefault EXCEPT ![field] = timing])]

\* One iteration of the loop of populate_instructions.
InstrParserStep(st, e) ==
    CASE e.ev = "Start" /\ e.tag = "InstructionSet" ->
            [st EXCEPT !.arch = ArchFromStr(e.attrs.name)]
      [] e.ev = "Start" /\ e.tag = "Instruction" ->
            [st EXCEPT !.curr_instruction = NewInstruction(st, e.attrs)]
      [] e.ev = "Start" /\ e.tag = "InstructionForm" ->
            IF e.attrs.cancelling_inputs \notin {None, Some("true"), Some("false")}
            THEN [st EXCEPT !.outcome = "Err"]
            ELSE [st EXCEPT !.curr_instruction_form =
                    [InstructionFormDefault EXCEPT
                        !.gas_name = e.attrs.gas_name,
                        !.go_name = e.attrs.go_name,
                        !.z80_name = e.attrs.z80_name,
                        !.cancelling_inputs =
                            IF e.attrs.cancelling_inputs = None THEN None
                            ELSE Some(e.attrs.cancelling_inputs = Some("true"))]]
      [] e.ev = "Start" /\ e.tag = "Encoding" ->
            [st EXCEPT !.curr_instruction_form.z80_opcode =
                IF IsSome(@) THEN Some(Unwrap(@) \o <<e.attrs.byte, " ">>)
                ELSE Some(<<e.attrs.byte, " ">>)]
      [] e.ev = "Empty" /\ e.tag = "ISA" ->
            IF ISAFromStr(e.attrs.id) = None
            THEN [st EXCEPT !.outcome = "Panic"]
            ELSE [st EXCEPT !.curr_instruction_form.isa = Some(Unwrap(ISAFromStr(e.attrs.id)))]
      [] e.ev = "Empty" /\ e.tag = "Operand" ->
            IF OperandOf(e.attrs) = None
            THEN [st EXCEPT !.outcome = "Err"]
            ELSE [st EXCEPT !.curr_instruction_form.operands =
                    Append(@, Unwrap(OperandOf(e.attrs)))]
      [] e.ev = "Empty" /\ e.tag \in DOMAIN TimingField ->
            IF Z80TimingInfoFromStr(e.attrs.value) = None
            THEN [st EXCEPT !.outcome = "Err"]
            ELSE [st EXCEPT !.curr_instruction_form =
                    SetTiming(@, TimingField[e.tag],
                              Unwrap(Z80TimingInfoFromStr(e.attrs.value)))]
      [] e.ev = "End" /\ e.tag = "Instruction" ->
            [st EXCEPT !.instructions_map =
                Insert(@, st.curr_instruction.name, st.curr_instruction)]
      [] e.ev = "End" /\ e.tag = "InstructionForm" ->
            [st EXCEPT !.curr_instruction =
                push_form(@, st.curr_instruction_form)]
      [] OTHER -> st

RECURSIVE InstrParserRun(_, _)
InstrParserRun(st, events) ==
    IF events = <<>> \/ st.outcome # "Ok" THEN st
    ELSE InstrParserRun(InstrParserStep(st, Head(events)), Tail(events))

RegParserInit ==
    [registers_map |-> EmptyMap, curr_register |-> RegisterDefault,
     curr_bit_flag |-> RegisterBitInfoDefault, arch |-> None,
     outcome |-> "Ok"]

\* The start of a Flag element: a default bit flag with the attributes of
\* the element; bit is unwrapped.
StartFlag(st, attrs) ==
    IF ParseUnsigned(attrs.bit) = None
    THEN [st EXCEPT !.outcome = "Panic"]
    ELSE [st EXCEPT !.curr_bit_flag =
            [RegisterBitInfoDefault EXCEPT
                !.bit = Unwrap(ParseUnsigned(attrs.bit)),
                !.label = attrs.label]]

\* The loop of populate_registers, were it to leave out the lower-case variant.
RegParserStepNoLowercase(st, e) ==
    CASE e.ev = "Start" /\ e.tag = "InstructionSet" ->
            [st EXCEPT !.arch = ArchFromStr(e.attrs.name)]
      [] e.ev = "Start" /\ e.tag = "Register" ->
            [st EXCEPT !.curr_register =
                [RegisterDefault EXCEPT
                    !.arch = st.arch,
                    !.alt_names = <<to_uppercase(e.attrs.name)>> \o e.attrs.altname,
                    !.name = e.attrs.name,
                    !.reg_type = IF IsSome(e.attrs.type)
                                 THEN RegisterTypeFromStr(Unwrap(e.attrs.type)) ELSE None,
                    !.width = IF IsSome(e.attrs.width)
                              THEN RegisterWidthFromStr(Unwrap(e.attrs.width)) ELSE None]]
      [] e.ev = "Start" /\ e.tag = "Flag" -> StartFlag(st, e.attrs)
      [] e.ev = "End" /\ e.tag = "Register" ->
            [st EXCEPT !.registers_map =
                Insert(@, st.curr_register.name, st.curr_register)]
      [] e.ev = "End" /\ e.tag = "Flag" ->
            [st EXCEPT !.curr_register = push_flag(@, st.curr_bit_flag)]
      [] OTHER -> st

\* One iteration of the loop of populate_registers.
RegParserStep(st, e) ==
    CASE e.ev = "Start" /\ e.tag = "InstructionSet" ->
            [st EXCEPT !.arch = ArchFromStr(e.attrs.name)]
      [] e.ev = "Start" /\ e.tag = "Register" ->
            [st EXCEPT !.curr_register =
                [RegisterDefault EXCEPT
                    !.arch = st.arch,
                    !.alt_names =
                        <<to_uppercase(e.attrs.name), to_lowercase(e.attrs.name)>>
                        \o e.attrs.altname,
                    !.name = e.attrs.name,
                    !.reg_type = IF IsSome(e.attrs.type)
                                 THEN RegisterTypeFromStr(Unwrap(e.attrs.type)) ELSE None,
                    !.width = IF IsSome(e.attrs.width)
                              THEN RegisterWidthFromStr(Unwrap(e.attrs.width)) ELSE None]]
      [] e.ev = "Start" /\ e.tag = "Flag" -> StartFlag(st, e.attrs)
      [] e.ev = "End" /\ e.tag = "Register" ->
            [st EXCEPT !.registers_map =
                Insert(@, st.curr_register.name, st.curr_register)]
      [] e.ev = "End" /\ e.tag = "Flag" ->
            [st EXCEPT !.curr_register = push_flag(@, st.curr_bit_flag)]
      [] OTHER -> st

RECURSIVE RegParserRun(_, _)
RegParserRun(st, events) ==
    IF events = <<>> \/ st.outcome # "Ok" THEN st
    ELSE RegParserRun(RegParserStep(st, Head(events)), Tail(events))

\* populate_registers: the registers of the document, in the map's order.
populate_registers(events) == IntoValues(RegParserRun(RegParserInit, events).registers_map)

DirParserInit ==
    [directives_map |-> EmptyMap, curr_directive |-> DirectiveDefault, assembler |-> None,
     outcome |-> "Ok"]

\* One iteration of the loop of populate_directives.
DirParserStep(st, e) ==
    CASE e.ev = "Start" /\ e.tag = "Assembler" ->
            [st EXCEPT !.assembler = AssemblerFromStr(e.attrs.name)]
      [] e.ev = "Start" /\ e.tag = "Directive" ->
            IF e.attrs.deprecated \notin {None, Some("true"), Some("false")}
            THEN [st EXCEPT !.outcome = "Panic"]
            ELSE [st EXCEPT !.curr_directive =
                    [DirectiveDefault EXCEPT
                        !.assembler = st.assembler,
                        !.alt_names = <<to_uppercase(e.attrs.name)>>,
                        !.name = e.attrs.name,
                        !.deprecated = IF e.attrs.deprecated = None THEN FALSE
                                       ELSE e.attrs.deprecated = Some("true")]]
      [] e.ev = "Start" /\ e.tag = "Signature" ->
            [st EXCEPT !.curr_directive.signatures = Append(@, unescape(e.attrs.sig))]
      [] e.ev = "End" /\ e.tag = "Directive" ->
            [st EXCEPT !.directives_map =
                Insert(@, st.curr_directive.name, st.curr_directive)]
      [] OTHER -> st

RECURSIVE DirParserRun(_, _)
DirParserRun(st, events) ==
    IF events = <<>> \/ st.outcome # "Ok" THEN st
    ELSE DirParserRun(DirParserStep(st, Head(events)), Tail(events))

\* populate_directives: the directives of the document, in the map's order.
populate_directives(events) == IntoValues(DirParserRun(DirParserInit, events).directives_map)

(***************************************************************************)
(* Reference documents: well-nested, one element per record, no two        *)
(* elements of a document with the same name, as in the shipped corpus.    *)
(* The forms of an x86 or x86-64 document carry gas-name and go-name, the  *)
(* forms of a z80 document carry z80name; an instruction has at most one   *)
(* form here, and form names and altnames are one character long.          *)
(***************************************************************************)
OptShortName == {Some(n) : n \in ShortNames} \cup {None}

FormAttrs(arch_name) ==
    IF arch_name = "z80"
    THEN {[gas_name |-> None, go_name |-> None, z80_name |-> z,
           cancelling_inputs |-> None, encodings |-> <<>>] : z \in OptShortName}
    ELSE {[gas_name |-> g, go_name |-> o, z80_name |-> None,
           cancelling_inputs |-> None, encodings |-> <<>>] :
            g \in OptShortName, o \in OptShortName}

\* The forms of one Instruction element.
FormLists(arch_name) == {<<>>} \cup {<<f>> : f \in FormAttrs(arch_name)}

\* An order of the names, to list the elements of a document in.
RECURSIVE NameRank(_)
NameRank(s) ==
    IF s = <<>> THEN 0
    ELSE 3 * NameRank(SubSeq(s, 1, Len(s) - 1)) + (IF s[Len(s)] = "a" THEN 1 ELSE 2)

\* The name attributes of the elements of a document: at most MaxEntries
\* different names.  The map an XML pass leaves does not depend on the order
\* of elements with different names, so each set of names is listed in one
\* order.
ElementNames ==
    UNION {{ns \in [1..n -> Names] :
                \A i \in 1..(n - 1) : NameRank(ns[i]) < NameRank(ns[i + 1])} :
            n \in 0..MaxEntries}

\* The Instruction elements of a document of this architecture.
InstrElems(arch_name) ==
    UNION {{[i \in DOMAIN ns |-> [name |-> ns[i], forms |-> fs[i]]] :
                fs \in [DOMAIN ns -> FormLists(arch_name)]} :
            ns \in ElementNames}

\* The Register elements of a document.
RegElems ==
    UNION {{[i \in DOMAIN ns |-> [name |-> ns[i], altname |-> as[i],
                                   type |-> None, width |-> None]] :
                as \in [DOMAIN ns -> OptShortName]} :
            ns \in ElementNames}

\* The Directive elements of a document.
DirElems ==
    {[i \in DOMAIN ns |-> [name |-> ns[i], deprecated |-> None]] : ns \in ElementNames}

\* The events of the Encoding elements of a form: a self-closing element
\* is one Empty event, an element with an end tag a Start and an End event.
RECURSIVE EncodingEvents(_)
EncodingEvents(encodings) ==
    IF encodings = <<>> THEN <<>>
    ELSE (IF Head(encodings).self_closing
          THEN <<Empty("Encoding", [byte |-> Head(encodings).byte])>>
          ELSE <<Start("Encoding", [byte |-> Head(encodings).byte]), End("Encoding")>>)
         \o EncodingEvents(Tail(encodings))

RECURSIVE FormEvents(_)
FormEvents(forms) ==
    IF forms = <<>> THEN <<>>
    ELSE <<Start("InstructionForm", Head(forms))>>
         \o EncodingEvents(Head(forms).encodings)
         \o <<End("InstructionForm")>>
         \o FormEvents(Tail(forms))

RECURSIVE InstrElemEvents(_)
InstrElemEvents(elems) ==
    IF elems = <<>> THEN <<>>
    ELSE <<Start("Instruction", [name |-> Head(elems).name])>>
         \o FormEvents(Head(elems).forms)
         \o <<End("Instruction")>>
         \o InstrElemEvents(Tail(elems))

\* The events of <InstructionSet name=arch_name> elems </InstructionSet>.
InstrDocEvents(arch_name, elems) ==
    <<Start("InstructionSet", [name |-> arch_name])>>
    \o InstrElemEvents(elems)
    \o <<End("InstructionSet")>>

RECURSIVE RegElemEvents(_)
RegElemEvents(elems) ==
    IF elems = <<>> THEN <<>>
    ELSE <<Start("Register", Head(elems)), End("Register")>> \o RegElemEvents(Tail(elems))

RegDocEvents(arch_name, elems) ==
    <<Start("InstructionSet", [name |-> arch_name])>>
    \o RegElemEvents(elems)
    \o <<End("InstructionSet")>>

RECURSIVE DirElemEvents(_)
DirElemEvents(elems) ==
    IF elems = <<>> THEN <<>>
    ELSE <<Start("Directive", Head(elems)), End("Directive")>> \o DirElemEvents(Tail(elems))

DirDocEvents(assembler_name, elems) ==
    <<Start("Assembler", [name |-> assembler_name])>>
    \o DirElemEvents(elems)
    \o <<End("Assembler")>>

\* The events of a reader that gives an empty-element tag as a start and an
\* end event.
RECURSIVE ExpandEmpty(_)
ExpandEmpty(events) ==
    IF events = <<>> THEN <<>>
    ELSE (IF Head(events).ev = "Empty"
          THEN <<Start(Head(events).tag, Head(events).attrs), End(Head(events).tag)>>
          ELSE <<Head(events)>>)
         \o ExpandEmpty(Tail(events))

\* The events of a document, were the reader to expand empty-element tags.
DocEventsExpandingEmpty(doc) ==
    ExpandEmpty(CASE "events" \in DOMAIN doc -> doc.events
                  [] doc.parser = "instructions" -> InstrDocEvents(doc.arch_name, doc.elems)
                  [] doc.parser = "registers" -> RegDocEvents(doc.arch_name, doc.elems)
                  [] doc.parser = "directives" -> DirDocEvents(doc.arch_name, doc.elems))

\* The events of a document: of its elements, or as the document lists them.
DocEvents(doc) ==
    CASE "events" \in DOMAIN doc -> doc.events
      [] doc.parser = "instructions" -> InstrDocEvents(doc.arch_name, doc.elems)
      [] doc.parser = "registers" -> RegDocEvents(doc.arch_name, doc.elems)
      [] doc.parser = "directives" -> DirDocEvents(doc.arch_name, doc.elems)

ArchNames == {"x86", "x86-64", "z80"}

(***************************************************************************)
(* The name indices.  An index binds (target, name) to a borrowed          *)
(* reference into the vector it was built from: the vector's owner and     *)
(* the position in it.                                                     *)
(***************************************************************************)
Ref(target, i) == [coll |-> target, idx |-> i]

\* map.insert((target, name), ref) for each name, in order.
RECURSIVE InsertNames(_, _, _, _)
InsertNames(map, target, names, ref) ==
    IF names = <<>> THEN map
    ELSE InsertNames(Insert(map, <<target, Head(names)>>, ref), target, Tail(names), ref)

\* map.entry((target, name)).or_insert_with(|| ref) for each name, in order.
RECURSIVE OrInsertNames(_, _, _, _)
OrInsertNames(map, target, names, ref) ==
    IF names = <<>> THEN map
    ELSE OrInsertNames(OrInsert(map, <<target, Head(names)>>, ref), target, Tail(names), ref)

\* The first loop of populate_name_to_instruction_map, from instruction i on.
RECURSIVE PrimaryPass(_, _, _, _)
PrimaryPass(map, arch, instrs, i) ==
    IF i > Len(instrs) THEN map
    ELSE PrimaryPass(InsertNames(map, arch, get_primary_names(instrs[i]), Ref(arch, i)),
                     arch, instrs, i + 1)

\* The second loop, were it to go over the case variants and leave out the
\* names of the forms.
RECURSIVE AssociatedPassCaseVariantsOnly(_, _, _, _)
AssociatedPassCaseVariantsOnly(map, arch, instrs, i) ==
    IF i > Len(instrs) THEN map
    ELSE AssociatedPassCaseVariantsOnly(
            OrInsertNames(map, arch, instrs[i].alt_names, Ref(arch, i)),
            arch, instrs, i + 1)

\* The second loop of populate_name_to_instruction_map, from instruction i on.
RECURSIVE AssociatedPass(_, _, _, _)
AssociatedPass(map, arch, instrs, i) ==
    IF i > Len(instrs) THEN map
    ELSE AssociatedPass(
            OrInsertNames(map, arch, get_associated_names(instrs[i]), Ref(arch, i)),
            arch, instrs, i + 1)

\* The second loop, were it to insert as the first one does.
RECURSIVE AssociatedPassOverwriting(_, _, _, _)
AssociatedPassOverwriting(map, arch, instrs, i) ==
    IF i > Len(instrs) THEN map
    ELSE AssociatedPassOverwriting(
            InsertNames(map, arch, get_associated_names(instrs[i]), Ref(arch, i)),
            arch, instrs, i + 1)

populate_name_to_instruction_map_overwriting(arch, instrs, map) ==
    AssociatedPassOverwriting(PrimaryPass(map, arch, instrs, 1), arch, instrs, 1)

\* populate_name_to_instruction_map, were it to leave out the second loop.
populate_name_to_instruction_map_primary_only(arch, instrs, map) ==
    PrimaryPass(map, arch, instrs, 1)

\* populate_name_to_instruction_map, were it to key every name under x86.
populate_name_to_instruction_map_one_target(arch, instrs, map) ==
    AssociatedPass(PrimaryPass(map, "X86", instrs, 1), "X86", instrs, 1)

populate_name_to_instruction_map(arch, instrs, map) ==
    AssociatedPass(PrimaryPass(map, arch, instrs, 1), arch, instrs, 1)

\* populate_name_to_register_map, were it to key the canonical name only.
RECURSIVE RegisterPassCanonicalOnly(_, _, _, _)
RegisterPassCanonicalOnly(map, arch, regs, i) ==
    IF i > Len(regs) THEN map
    ELSE RegisterPassCanonicalOnly(
            InsertNames(map, arch, <<regs[i].name>>, Ref(arch, i)), arch, regs, i + 1)

\* The loop of populate_name_to_register_map, from register i on.
RECURSIVE RegisterPass(_, _, _, _)
RegisterPass(map, arch, regs, i) ==
    IF i > Len(regs) THEN map
    ELSE RegisterPass(
            InsertNames(map, arch, register_get_associated_names(regs[i]), Ref(arch, i)),
            arch, regs, i + 1)

populate_name_to_register_map(arch, regs, map) == RegisterPass(map, arch, regs, 1)

\* populate_name_to_directive_map, were it to key the alternate names only.
RECURSIVE DirectivePassAltNamesOnly(_, _, _, _)
DirectivePassAltNamesOnly(map, assem, dirs, i) ==
    IF i > Len(dirs) THEN map
    ELSE DirectivePassAltNamesOnly(
            InsertNames(map, assem, dirs[i].alt_names, Ref(assem, i)), assem, dirs, i + 1)

\* The loop of populate_name_to_directive_map, from directive i on.
RECURSIVE DirectivePass(_, _, _, _)
DirectivePass(map, assem, dirs, i) ==
    IF i > Len(dirs) THEN map
    ELSE DirectivePass(
            InsertNames(map, assem, directive_get_associated_names(dirs[i]), Ref(assem, i)),
            assem, dirs, i + 1)

populate_name_to_directive_map(assem, dirs, map) == DirectivePass(map, assem, dirs, 1)

\* The lookup, were a key to match any name it begins with.
LookupByPrefix(map, target, name) ==
    LET keys == {k \in DOMAIN map :
                    /\ k[1] = target
                    /\ Len(k[2]) >= Len(name)
                    /\ SubSeq(k[2], 1, Len(name)) = name}
    IN  IF keys # {} THEN Some(map[CHOOSE k \in keys : TRUE]) ELSE None

\* lookup(target, name): the reference the index holds, or None.
Lookup(map, target, name) ==
    IF <<target, name>> \in DOMAIN map THEN Some(map[<<target, name>>]) ELSE None

(***************************************************************************)
(* Spec: the collections hold what the parsers return for a reference      *)
(* document (one collection non-empty at a time), and init_test_store      *)
(* builds the indices over them.                                           *)
(***************************************************************************)
NoInstructions == [a \in Archs |-> <<>>]

NoRegisters == [a \in Archs |-> <<>>]

NoDirectives == [a \in Assemblers |-> <<>>]

\* No get_cache_dir call looked at.
NoCacheEnv ==
    [var |-> None, dirs |-> {}, home |-> None, create_ok |-> TRUE, wr |-> "ok", ret |-> None]

\* No get_docs_body call made yet in this process run.
NoCall ==
    [called |-> FALSE, refresh |-> FALSE, cached |-> None, fetched |-> FALSE,
     fetch_ok |-> FALSE, read |-> FALSE, body |-> None, removable |-> FALSE,
     ret |-> None]

\* No populate_instructions call made yet in this process run.
NoResult == [tag |-> "None", arch |-> None, value |-> <<>>]

\* No document handed to a parser.
NoDocument == [parser |-> "none", elems |-> <<>>]

\* No get_hover_resp call made.
NoHover ==
    [word |-> <<>>, file_word |-> <<>>, demangled |-> None, stage |-> "none",
     lookups |-> <<>>, kind |-> "none", sections |-> <<>>, resp |-> None]

\* The configuration init_global_info falls back to: every assembler enabled.
DefaultConfig == [gas |-> TRUE, go |-> TRUE, z80 |-> TRUE]

\* GlobalVars::new: no completion items rendered.
NoCompletionItems == [instr |-> {}, reg |-> {}, directive |-> {}]

\* No document opened, no cursor placed.
NoCursor == [source |-> <<>>, line |-> 0, character |-> 0]

\* No request served beyond the hover request of test_hover.
ServeIdle ==
    /\ config = DefaultConfig
    /\ completion_items = NoCompletionItems
    /\ cursor = NoCursor
    /\ requests = <<>>

\* No snapshot read, no hover request made.
TestIdle ==
    /\ snapshot = None
    /\ hover = NoHover
    /\ ServeIdle

DocsIdle ==
    /\ document = NoDocument
    /\ cache_refresh = FALSE
    /\ cache_dir = FALSE
    /\ cache_env = NoCacheEnv
    /\ cache_file = None
    /\ web = None
    /\ fetches = 0
    /\ ingestions = 0
    /\ gdb = NoCall
    /\ xml_pass = EmptyMap
    /\ result = NoResult

\* The instructions a parsed document leaves: the XML pass, no URL attached.
ParsedInstructions(arch_name, elems) ==
    IntoValues(InstrParserRun(InstrParserInit, InstrDocEvents(arch_name, elems)).instructions_map)

InitInstructions ==
    /\ \E arch_name \in ArchNames :
        \E elems \in InstrElems(arch_name) :
            \E v \in ParsedInstructions(arch_name, elems) :
                instructions = [NoInstructions EXCEPT ![Unwrap(ArchFromStr(arch_name))] = v]
    /\ registers = NoRegisters
    /\ directives = NoDirectives

InitRegisters ==
    /\ instructions = NoInstructions
    /\ \E arch_name \in ArchNames :
        \E elems \in RegElems :
            \E v \in populate_registers(RegDocEvents(arch_name, elems)) :
                registers = [NoRegisters EXCEPT ![Unwrap(ArchFromStr(arch_name))] = v]
    /\ directives = NoDirectives

InitDirectives ==
    /\ instructions = NoInstructions
    /\ registers = NoRegisters
    /\ \E elems \in DirElems :
        \E v \in populate_directives(DirDocEvents("gas", elems)) :
            directives = [NoDirectives EXCEPT !["Gas"] = v]

Init ==
    /\ InitInstructions \/ InitRegisters \/ InitDirectives
    /\ names_to_instructions = EmptyMap
    /\ names_to_registers = EmptyMap
    /\ names_to_directives = EmptyMap
    /\ pc = "instructions"
    /\ DocsIdle
    /\ TestIdle

\* init_test_store, the three populate_name_to_instruction_map calls.
IndexInstructions ==
    /\ pc = "instructions"
    /\ names_to_instructions' =
        populate_name_to_instruction_map("Z80", instructions["Z80"],
            populate_name_to_instruction_map("X86_64", instructions["X86_64"],
                populate_name_to_instruction_map("X86", instructions["X86"],
                    names_to_instructions)))
    /\ pc' = "registers"
    /\ UNCHANGED <<instructions, registers, directives, names_to_registers,
                   names_to_directives>>
    /\ UNCHANGED docs_vars
    /\ UNCHANGED test_vars

\* init_test_store, the three populate_name_to_register_map calls.
IndexRegisters ==
    /\ pc = "registers"
    /\ names_to_registers' =
        populate_name_to_register_map("Z80", registers["Z80"],
            populate_name_to_register_map("X86_64", registers["X86_64"],
                populate_name_to_register_map("X86", registers["X86"],
                    names_to_registers)))
    /\ pc' = "directives"
    /\ UNCHANGED <<instructions, registers, directives, names_to_instructions,
                   names_to_directives>>
    /\ UNCHANGED docs_vars
    /\ UNCHANGED test_vars

\* init_test_store, the populate_name_to_directive_map call.
IndexDirectives ==
    /\ pc = "directives"
    /\ names_to_directives' =
        populate_name_to_directive_map("Gas", directives["Gas"], names_to_directives)
    /\ pc' = "done"
    /\ UNCHANGED <<instructions, registers, directives, names_to_instructions,
                   names_to_registers>>
    /\ UNCHANGED docs_vars
    /\ UNCHANGED test_vars

Next == IndexInstructions \/ IndexRegisters \/ IndexDirectives

Spec == Init /\ [][Next]_vars

\* The index builders of this kind have run.
Indexed(op) ==
    CASE op = "instr" -> pc \in {"registers", "directives", "done"}
      [] op = "reg" -> pc \in {"directives", "done"}
      [] op = "dir" -> pc = "done"

(***************************************************************************)
(* Index primacy and case invariance (Spec).                               *)
(***************************************************************************)

\* C1: once populate_name_to_instruction_map has run for an architecture, a
\* name that is a primary name of instruction A and an associated name of
\* another instruction B of the same vector is bound to A, wherever A and B
\* stand in the vector.
C1_InstructionPrimacy ==
    \A a \in Archs :
        Indexed("instr") =>
            \A i, j \in DOMAIN instructions[a] :
                i # j =>
                    \A n \in Range(get_primary_names(instructions[a][i]))
                             \cap Range(get_associated_names(instructions[a][j])) :
                        Lookup(names_to_instructions, a, n) = Some(Ref(a, i))

\* An indexed vector in which a later instruction has, as a form name, the
\* primary name of an earlier one, and one in which it stands before it.
C1_Witness ==
    \E a \in Archs :
        /\ Indexed("instr")
        /\ Len(instructions[a]) = 2
        /\ instructions[a][1].name \in Range(FormsNames(instructions[a][2].forms))
        /\ Lookup(names_to_instructions, a, instructions[a][1].name) = Some(Ref(a, 1))

\* C2 (as claimed): once populate_name_to_register_map has run for an
\* architecture, a name that is the canonical name of register A and an
\* alternate name of another register B of the same vector is bound to A.
C2_RegisterPrimacy ==
    \A a \in Archs :
        Indexed("reg") =>
            \A i, j \in DOMAIN registers[a] :
                (i # j /\ registers[a][i].name \in Range(registers[a][j].alt_names)) =>
                    Lookup(names_to_registers, a, registers[a][i].name) = Some(Ref(a, i))

\* C3 (as claimed): once populate_name_to_directive_map has run for an
\* assembler, a name that is the canonical name of directive A and an
\* alternate name of another directive B of the same vector is bound to A.
C3_DirectivePrimacy ==
    \A a \in Assemblers :
        Indexed("dir") =>
            \A i, j \in DOMAIN directives[a] :
                (i # j /\ directives[a][i].name \in Range(directives[a][j].alt_names)) =>
                    Lookup(names_to_directives, a, directives[a][i].name) = Some(Ref(a, i))

\* The three spellings under which an entry is looked up.
Spellings(name) == {name, to_uppercase(name), to_lowercase(name)}

\* C4 (as claimed): for every instruction and every register of an indexed
\* collection, the lookups of its name, of the upper-case name and of the
\* lower-case name all succeed and all return the same entry.
C4_CaseInvariance ==
    \A a \in Archs :
        /\ Indexed("instr") =>
            \A i \in DOMAIN instructions[a] :
                \E r \in {Ref(a, k) : k \in DOMAIN instructions[a]} :
                    \A n \in Spellings(instructions[a][i].name) :
                        Lookup(names_to_instructions, a, n) = Some(r)
        /\ Indexed("reg") =>
            \A i \in DOMAIN registers[a] :
                \E r \in {Ref(a, k) : k \in DOMAIN registers[a]} :
                    \A n \in Spellings(registers[a][i].name) :
                        Lookup(names_to_registers, a, n) = Some(r)

\* No spelling of entry i's name is a name of another instruction of the vector.
InstrSpellingsOwn(instrs, i) ==
    \A j \in DOMAIN instrs :
        j # i =>
            Spellings(instrs[i].name)
            \cap (Range(get_primary_names(instrs[j])) \cup Range(get_associated_names(instrs[j])))
            = {}

\* No spelling of entry i's name is a name of another register of the vector.
RegSpellingsOwn(regs, i) ==
    \A j \in DOMAIN regs :
        j # i =>
            Spellings(regs[i].name) \cap Range(register_get_associated_names(regs[j])) = {}

\* C4 (amended): for every instruction and every register of an indexed
\* collection none of whose three spellings is a name of another entry of
\* that collection, the lookups of its name, of the upper-case name and of
\* the lower-case name all succeed and all return that entry.
C4_CaseInvarianceOwnSpellings ==
    \A a \in Archs :
        /\ Indexed("instr") =>
            \A i \in DOMAIN instructions[a] :
                InstrSpellingsOwn(instructions[a], i) =>
                    \A n \in Spellings(instructions[a][i].name) :
                        Lookup(names_to_instructions, a, n) = Some(Ref(a, i))
        /\ Indexed("reg") =>
            \A i \in DOMAIN registers[a] :
                RegSpellingsOwn(registers[a], i) =>
                    \A n \in Spellings(registers[a][i].name) :
                        Lookup(names_to_registers, a, n) = Some(Ref(a, i))

\* An indexed vector of two registers whose first has a mixed-case name, so
\* three different spellings, none of them a name of the second.
C4_Witness ==
    \E a \in Archs :
        /\ Indexed("reg")
        /\ Len(registers[a]) = 2
        /\ Cardinality(Spellings(registers[a][1].name)) = 3
        /\ RegSpellingsOwn(registers[a], 1)
        /\ \A n \in Spellings(registers[a][1].name) :
            Lookup(names_to_registers, a, n) = Some(Ref(a, 1))

(***************************************************************************)
(* The supplementary documentation page.  A body is held as the pieces     *)
(* body.split("<td>") yields: what precedes the first "<td>", then one     *)
(* piece for each "<td>".  Of a piece, what the URL step reads is whether   *)
(* the anchor regex finds a match in it and, if so, its two capture groups. *)
(***************************************************************************)
\* A piece without text.
EmptyPiece == [empty |-> TRUE, match |-> FALSE, suffix |-> <<>>, name |-> <<>>]

\* A piece of text in which the regex finds no match.
NoMatch == [empty |-> FALSE, match |-> FALSE, suffix |-> <<>>, name |-> <<>>]

\* A piece in which the regex finds <a href='/x86/suffix'>name</a>...</td>.
Anchor(suffix, name) == [empty |-> FALSE, match |-> TRUE, suffix |-> suffix, name |-> name]

\* The body "".
EmptyBody == <<EmptyPiece>>

\* The cells of the pages: text without an anchor, or an anchor naming "a".
Cells == {NoMatch, Anchor(<<"x">>, <<"a">>), Anchor(<<"y">>, <<"a">>)}

\* The bodies: "", and text followed by at most MaxCells cells.
Bodies ==
    {EmptyBody}
    \cup UNION {{<<NoMatch>> \o cs : cs \in [1..n -> Cells]} : n \in 0..MaxCells}

\* body.split("<td>").skip(1).step_by(2): the pieces at positions 2, 4, ...
body_it(body) == [k \in 1..(Len(body) \div 2) |-> body[2 * k]]

\* get_x86_docs_url
get_x86_docs_url == <<"/">>

(***************************************************************************)
(* get_docs_body.  The environment of one call: whether the request        *)
(* succeeds, how writing the cache ends, whether reading and removing the  *)
(* cache file succeed.                                                     *)
(***************************************************************************)
WriteOutcomes == {"ok", "create_failed", "write_failed"}

Envs == [fetch_ok : BOOLEAN, wr : WriteOutcomes, read_ok : BOOLEAN, remove_ok : BOOLEAN]

\* set_x86_docs_cache, were it to create the file and write nothing.
set_x86_docs_cache_truncating(contents, file, wr) ==
    IF wr = "create_failed" THEN file ELSE Some(EmptyBody)

\* set_x86_docs_cache: the file afterwards.  A failed write_all leaves the
\* file File::create truncated.
set_x86_docs_cache(contents, file, wr) ==
    CASE wr = "ok" -> Some(contents)
      [] wr = "create_failed" -> file
      [] wr = "write_failed" -> Some(EmptyBody)

\* get_docs_body, were it to go to the network on every call.
ShouldFetchAlways(refresh, cache_exists) == TRUE

\* get_docs_body, were it to leave --cache-refresh out of the condition.
ShouldFetchIgnoringRefresh(refresh, cache_exists) == ~cache_exists

\* The condition under which get_docs_body goes to the network.
ShouldFetch(refresh, cache_exists) == refresh \/ ~cache_exists

\* The validity check of get_docs_body: the iterator over the body is empty.
IsInvalid(body) == Len(body_it(body)) = 0

\* get_docs_body, were it to read the cache file when the request fails.
get_docs_body_falling_back(refresh, dir, file, page, env) ==
    LET cache_exists == dir /\ IsSome(file)
        fetch == ShouldFetch(refresh, cache_exists)
        response == IF env.fetch_ok THEN page ELSE None
        read == dir /\ (~fetch \/ response = None)
        body == IF fetch /\ IsSome(response) THEN response
                ELSE IF read /\ env.read_ok THEN file
                ELSE None
        written == IF fetch /\ IsSome(response) /\ dir
                   THEN set_x86_docs_cache(Unwrap(response), file, env.wr)
                   ELSE file
        invalid == IsSome(body) /\ IsInvalid(Unwrap(body))
    IN  [call |-> [called |-> TRUE, refresh |-> refresh, cached |-> file,
                   fetched |-> fetch, fetch_ok |-> fetch /\ IsSome(response),
                   read |-> read, body |-> body, removable |-> env.remove_ok,
                   ret |-> IF invalid THEN None ELSE body],
         file |-> IF invalid /\ dir /\ env.remove_ok THEN None ELSE written]

\* get_docs_body, for the flag, the cache directory, the cache file and the
\* page as they are when it is called: what it did, what it returned and the
\* cache file it left.
get_docs_body(refresh, dir, file, page, env) ==
    LET cache_exists == dir /\ IsSome(file)
        fetch == ShouldFetch(refresh, cache_exists)
        response == IF env.fetch_ok THEN page ELSE None
        read == ~fetch /\ dir
        body == IF fetch THEN response
                ELSE IF read /\ env.read_ok THEN file
                ELSE None
        written == IF fetch /\ IsSome(response) /\ dir
                   THEN set_x86_docs_cache(Unwrap(response), file, env.wr)
                   ELSE file
        invalid == IsSome(body) /\ IsInvalid(Unwrap(body))
    IN  [call |-> [called |-> TRUE, refresh |-> refresh, cached |-> file,
                   fetched |-> fetch, fetch_ok |-> fetch /\ IsSome(response),
                   read |-> read, body |-> body, removable |-> env.remove_ok,
                   ret |-> IF invalid THEN None ELSE body],
         file |-> IF invalid /\ dir /\ env.remove_ok THEN None ELSE written]

\* The outcomes a call consults; the others are held at success.
Consulted(refresh, dir, file, page, env) ==
    LET cache_exists == dir /\ IsSome(file)
        fetch == ShouldFetch(refresh, cache_exists)
        out == get_docs_body(refresh, dir, file, page, env)
    IN  /\ ~fetch => env.fetch_ok /\ env.wr = "ok"
        /\ fetch => env.read_ok
        /\ fetch /\ ~(out.call.fetch_ok /\ dir) => env.wr = "ok"
        /\ ~(dir /\ IsSome(out.call.body) /\ IsInvalid(Unwrap(out.call.body)))
            => env.remove_ok

AllOk == [fetch_ok |-> TRUE, wr |-> "ok", read_ok |-> TRUE, remove_ok |-> TRUE]

(***************************************************************************)
(* The URL step of populate_instructions.                                  *)
(***************************************************************************)
\* The URL step, were a body that is missing replaced by a page with an anchor.
unwrap_or_page(ret) ==
    IF IsSome(ret) THEN Unwrap(ret) ELSE <<NoMatch, Anchor(<<"x">>, <<"a">>)>>

\* get_docs_body(..).unwrap_or_default()
unwrap_or_default(ret) == IF IsSome(ret) THEN Unwrap(ret) ELSE EmptyBody

\* The loop over body_it, were it to look the captured name up without regard
\* to case.
RECURSIVE AttachUrlsIgnoringCase(_, _)
AttachUrlsIgnoringCase(instructions_map, lines) ==
    IF lines = <<>> THEN instructions_map
    ELSE LET caps == Head(lines)
             url == Some(get_x86_docs_url \o caps.suffix)
         IN  AttachUrlsIgnoringCase(
                [k \in DOMAIN instructions_map |->
                    IF to_lowercase(k) = to_lowercase(caps.name)
                    THEN [instructions_map[k] EXCEPT !.url = url]
                    ELSE instructions_map[k]],
                Tail(lines))

\* The loop over body_it, one line at a time: the URL goes to the
\* instruction the map holds under the captured name.
RECURSIVE AttachUrls(_, _)
AttachUrls(instructions_map, lines) ==
    IF lines = <<>> THEN instructions_map
    ELSE LET caps == Head(lines)
             url == Some(get_x86_docs_url \o caps.suffix)
         IN  AttachUrls(IF caps.name \in DOMAIN instructions_map
                        THEN [instructions_map EXCEPT ![caps.name].url = url]
                        ELSE instructions_map,
                        Tail(lines))

\* re.captures(line).unwrap() panics on a line the regex does not match.
UnwrapPanics(lines) == \E i \in DOMAIN lines : ~lines[i].match

\* populate_instructions after the XML pass, for an x86 or x86-64 document
\* and the body get_docs_body returned.
url_step(instructions_map, ret) ==
    LET lines == body_it(unwrap_or_default(ret))
    IN  IF UnwrapPanics(lines)
        THEN [tag |-> "Panic", values |-> {<<>>}]
        ELSE [tag |-> "Ok", values |-> IntoValues(AttachUrls(instructions_map, lines))]

(***************************************************************************)
(* Process runs.  A run starts with or without --cache-refresh and calls   *)
(* populate_instructions on documents, at most MaxIngestions of them; a    *)
(* panic ends the run.  The cache file outlives the run.  The documents    *)
(* hold instructions named "a" and "A"; the page served does not change.   *)
(***************************************************************************)
\* The Instruction elements of the documents ingested here.
DocInstrElems ==
    {[i \in DOMAIN ns |-> [name |-> ns[i], forms |-> <<>>]] :
        ns \in {ms \in ElementNames : \A i \in DOMAIN ms : ms[i] \in ShortNames}}

IndexIdle ==
    /\ instructions = NoInstructions
    /\ registers = NoRegisters
    /\ directives = NoDirectives
    /\ names_to_instructions = EmptyMap
    /\ names_to_registers = EmptyMap
    /\ names_to_directives = EmptyMap
    /\ pc = "ingestion"

InitDocs ==
    /\ IndexIdle
    /\ document = NoDocument
    /\ cache_refresh \in BOOLEAN
    /\ cache_dir \in BOOLEAN
    /\ cache_env = NoCacheEnv
    /\ cache_file = None
    /\ web \in Bodies
    /\ fetches = 0
    /\ ingestions = 0
    /\ gdb = NoCall
    /\ xml_pass = EmptyMap
    /\ result = NoResult
    /\ TestIdle

\* The name attributes of the InstructionSet elements ingested here, one of
\* them a name Arch::from_str does not know.
DocArchNames == ArchNames \cup {"arm"}

\* populate_instructions, were it to take the URL step for every document.
IsAnyArch(r) == TRUE

\* The XML pass of populate_instructions over each of the documents: the
\* architecture it read and the map it built.
XmlPasses ==
    {InstrParserRun(InstrParserInit, InstrDocEvents(arch_name, elems)) :
        arch_name \in DocArchNames, elems \in DocInstrElems}

\* The XML pass read an x86 or x86-64 document.
IsX86(r) == r.arch \in {Some("X86"), Some("X86_64")}

\* One call of populate_instructions: the XML pass, then for x86 and x86-64
\* get_docs_body and the URL step.
PopulateInstructions ==
    /\ pc = "ingestion"
    /\ ingestions < MaxIngestions
    /\ result.tag # "Panic"
    /\ \E st \in XmlPasses :
        \E env \in IF IsX86(st)
                    THEN {e \in Envs :
                            Consulted(cache_refresh, cache_dir, cache_file, Some(web), e)}
                    ELSE {AllOk} :
            LET out == get_docs_body(cache_refresh, cache_dir, cache_file, Some(web), env)
                step == IF IsX86(st)
                        THEN url_step(st.instructions_map, out.call.ret)
                        ELSE [tag |-> "Ok", values |-> IntoValues(st.instructions_map)]
            IN  /\ xml_pass' = st.instructions_map
                /\ gdb' = IF IsX86(st) THEN out.call ELSE NoCall
                /\ cache_file' = IF IsX86(st) THEN out.file ELSE cache_file
                /\ fetches' = IF IsX86(st) /\ out.call.fetched
                              THEN fetches + 1 ELSE fetches
                /\ \E v \in step.values :
                    result' = [tag |-> step.tag, arch |-> st.arch, value |-> v]
    /\ ingestions' = ingestions + 1
    /\ UNCHANGED <<cache_refresh, cache_dir, cache_env, web, document>>
    /\ UNCHANGED index_vars
    /\ UNCHANGED test_vars

\* The process ends and another starts, with or without --cache-refresh.
NewProcess ==
    /\ pc = "ingestion"
    /\ ingestions > 0
    /\ cache_refresh' \in BOOLEAN
    /\ fetches' = 0
    /\ ingestions' = 0
    /\ gdb' = NoCall
    /\ xml_pass' = EmptyMap
    /\ result' = NoResult
    /\ UNCHANGED <<cache_dir, cache_env, cache_file, web, document>>
    /\ UNCHANGED index_vars
    /\ UNCHANGED test_vars

NextDocs == PopulateInstructions \/ NewProcess

SpecDocs == InitDocs /\ [][NextDocs]_vars

(***************************************************************************)
(* The supplementary-URL step: what a call returns.                        *)
(***************************************************************************)
\* C5: populate_instructions on a well-formed x86 or x86-64 document never
\* panics, whatever the cache directory, the cache file, the network and the
\* body they yield.
C5_NeverFatal == IsX86(result) => result.tag # "Panic"

\* C6: when the cache file is absent and the request fails, the call on an
\* x86 or x86-64 document returns Ok with exactly the records of the XML pass,
\* none of them with a URL.
C6_FetchFailureKeepsRecords ==
    gdb.called /\ ~IsSome(gdb.cached) /\ gdb.fetched /\ ~gdb.fetch_ok =>
        /\ result.tag = "Ok"
        /\ Len(result.value) = Cardinality(DOMAIN xml_pass)
        /\ Range(result.value) = {xml_pass[k] : k \in DOMAIN xml_pass}
        /\ \A i \in DOMAIN result.value : result.value[i].url = None

\* A call with no cache file and a failed request returned two records.
C6_Witness ==
    /\ gdb.called /\ ~IsSome(gdb.cached) /\ gdb.fetched /\ ~gdb.fetch_ok
    /\ result.tag = "Ok"
    /\ Len(result.value) = 2

(***************************************************************************)
(* The network requests of a process run.                                  *)
(***************************************************************************)
\* C7 as stated: over the ingestions of one process run, with or without
\* --cache-refresh, at most one network request is made.
C7_AtMostOneFetch == fetches <= 1

\* C7: a step makes at most one network request, and makes one only in a
\* populate_instructions call on an x86 or x86-64 document that starts with
\* --cache-refresh given or without a cache file.
C7_FetchPerIngestion ==
    [][/\ fetches' <= fetches + 1
       /\ fetches' = fetches + 1 =>
            /\ ingestions' = ingestions + 1
            /\ IsX86(result')
            /\ cache_refresh \/ ~(cache_dir /\ IsSome(cache_file))]_vars

\* Two network requests in one process run.
C7_Witness == fetches = 2 /\ ingestions = 2

(***************************************************************************)
(* The cache policy of get_docs_body.                                      *)
(***************************************************************************)
\* A body the URL step cannot use: it has no line, or a line the regex does
\* not match.
Unparseable(body) == IsInvalid(body) \/ UnwrapPanics(body_it(body))

\* C8: whenever the body get_docs_body obtained is empty or unparseable, it
\* returns no body and, the cache directory resolved and the file removable,
\* leaves no cache file.
C8_UnparseableBodyDiscarded ==
    gdb.called /\ IsSome(gdb.body) /\ Unparseable(Unwrap(gdb.body)) =>
        /\ gdb.ret = None
        /\ cache_dir /\ gdb.removable => cache_file = None

\* What get_docs_body does for the bodies its validity check rejects: it
\* returns no body and, the cache directory resolved and the file removable,
\* leaves no cache file.
NoLineBodyDiscarded ==
    gdb.called /\ IsSome(gdb.body) /\ IsInvalid(Unwrap(gdb.body)) =>
        /\ gdb.ret = None
        /\ cache_dir /\ gdb.removable => cache_file = None

\* C9: a populate_instructions call on an x86 or x86-64 document makes a
\* network request exactly when --cache-refresh is given or there is no
\* cache file; with a cache file and no --cache-refresh it reads the cache,
\* obtains the cached body or none, and makes no request.
C9_FetchIffRefreshOrNoCache ==
    [][ingestions' = ingestions + 1 /\ IsX86(result') =>
        /\ gdb'.called /\ gdb'.refresh = cache_refresh /\ gdb'.cached = cache_file
        /\ fetches' = fetches + 1 <=> (cache_refresh \/ ~IsSome(cache_file))
        /\ gdb'.fetched <=> fetches' = fetches + 1
        /\ fetches' \in {fetches, fetches + 1}
        /\ IsSome(cache_file) /\ ~cache_refresh =>
            /\ gdb'.read
            /\ fetches' = fetches
            /\ gdb'.body \in {cache_file, None}]_vars

\* A call read a body from the cache file and returned it.
C9_Witness ==
    /\ gdb.called /\ ~gdb.refresh /\ IsSome(gdb.cached)
    /\ gdb.read /\ ~gdb.fetched
    /\ gdb.ret = gdb.cached

(***************************************************************************)
(* The URLs attached.                                                      *)
(***************************************************************************)
\* The (url-suffix, instruction-name) pairs extracted from a body: the
\* captures of the pieces at positions 2, 4, ...
ExtractedPairs(body) ==
    {[suffix |-> body[i].suffix, name |-> body[i].name] :
        i \in {j \in DOMAIN body : j % 2 = 0 /\ body[j].match}}

\* C10: after populate_instructions on an x86 or x86-64 document, an
\* instruction has a URL exactly when the body holds an extracted pair whose
\* name is the instruction's canonical name, character for character, and
\* the URL is then the base URL followed by the suffix of such a pair.
C10_UrlByExactName ==
    result.tag = "Ok" /\ IsX86(result) =>
        LET pairs == IF IsSome(gdb.ret) THEN ExtractedPairs(Unwrap(gdb.ret)) ELSE {}
        IN  \A i \in DOMAIN result.value :
                LET instruction == result.value[i]
                    mine == {p \in pairs : p.name = instruction.name}
                IN  /\ IsSome(instruction.url) <=> mine # {}
                    /\ IsSome(instruction.url) =>
                        \E p \in mine :
                            instruction.url = Some(get_x86_docs_url \o p.suffix)

\* A call returned "a" with a URL and "A" without, from a body whose pairs
\* name "a".
C10_Witness ==
    /\ result.tag = "Ok" /\ IsX86(result)
    /\ \E i, j \in DOMAIN result.value :
        /\ result.value[i].name = <<"a">> /\ IsSome(result.value[i].url)
        /\ result.value[j].name = <<"A">> /\ result.value[j].url = None

(***************************************************************************)
(* Documents of other architectures.                                       *)
(***************************************************************************)
\* C11: a populate_instructions call on a document whose architecture is
\* not x86 or x86-64 makes no network request, does not call get_docs_body,
\* leaves the cache file as it is, and returns Ok with no instruction
\* carrying a URL.
C11_OtherArchsUntouched ==
    [][ingestions' = ingestions + 1
       /\ result'.arch \notin {Some("X86"), Some("X86_64")} =>
        /\ fetches' = fetches
        /\ cache_file' = cache_file
        /\ gdb' = NoCall
        /\ result'.tag = "Ok"
        /\ Range(result'.value) = {xml_pass'[k] : k \in DOMAIN xml_pass'}
        /\ \A i \in DOMAIN result'.value : result'.value[i].url = None]_vars

\* A z80 document with two instructions was ingested while the cache file
\* held a page with an anchor naming one of them.
C11_Witness ==
    /\ result.tag = "Ok" /\ result.arch = Some("Z80")
    /\ Len(result.value) = 2
    /\ IsSome(cache_file)
    /\ \E p \in ExtractedPairs(Unwrap(cache_file)) : p.name = <<"a">>

(***************************************************************************)
(* SpecArchs: every architecture holds the instructions of a document of   *)
(* its own (instructions named "a" and "A", a form named "a" or none), and *)
(* populate_name_to_instruction_map runs once for each architecture, in    *)
(* any order.  pc is the sequence of architectures populated so far.       *)
(***************************************************************************)
\* The forms of one Instruction element of these documents.
ArchFormLists(arch_name) ==
    {<<>>} \cup
    {<<f>> : f \in {g \in FormAttrs(arch_name) :
                        /\ g.go_name = None
                        /\ g.gas_name \in {None, Some(<<"a">>)}
                        /\ g.z80_name \in {None, Some(<<"a">>)}
                        /\ g.gas_name # None \/ g.z80_name # None}}

ArchInstrElems(arch_name) ==
    UNION {{[i \in DOMAIN ns |-> [name |-> ns[i], forms |-> fs[i]]] :
                fs \in [DOMAIN ns -> ArchFormLists(arch_name)]} :
            ns \in {ms \in ElementNames : \A i \in DOMAIN ms : ms[i] \in ShortNames}}

\* The vectors populate_instructions can return for these documents.
ArchVectors(arch_name) ==
    UNION {ParsedInstructions(arch_name, elems) : elems \in ArchInstrElems(arch_name)}

InitArchs ==
    /\ \E x \in ArchVectors("x86"), y \in ArchVectors("x86-64"), z \in ArchVectors("z80") :
        instructions = [a \in Archs |->
                          CASE a = "X86" -> x [] a = "X86_64" -> y [] a = "Z80" -> z]
    /\ registers = NoRegisters
    /\ directives = NoDirectives
    /\ names_to_instructions = EmptyMap
    /\ names_to_registers = EmptyMap
    /\ names_to_directives = EmptyMap
    /\ pc = <<>>
    /\ DocsIdle
    /\ TestIdle

\* One populate_name_to_instruction_map call, for an architecture not yet
\* populated.
PopulateArch ==
    /\ \E a \in Archs \ Range(pc) :
        /\ names_to_instructions' =
            populate_name_to_instruction_map(a, instructions[a], names_to_instructions)
        /\ pc' = Append(pc, a)
    /\ UNCHANGED <<instructions, registers, directives, names_to_registers,
                   names_to_directives>>
    /\ UNCHANGED docs_vars
    /\ UNCHANGED test_vars

NextArchs == PopulateArch

SpecArchs == InitArchs /\ [][NextArchs]_vars

\* The index init_test_store builds: x86, then x86-64, then z80.
InStoreOrder ==
    populate_name_to_instruction_map("Z80", instructions["Z80"],
        populate_name_to_instruction_map("X86_64", instructions["X86_64"],
            populate_name_to_instruction_map("X86", instructions["X86"], EmptyMap)))

\* C12: populating the index for an architecture adds or changes only keys
\* of that architecture and leaves the keys of the others bound as they
\* were; every key is bound to a record of the collection of its own
\* architecture, so a name of both x86 and x86-64 has two keys bound to two
\* records; and the index built does not depend on the order of the calls.
C12_ArchIsolation ==
    /\ [][\A a \in Archs :
            pc' = Append(pc, a) =>
                \A key \in DOMAIN names_to_instructions \cup DOMAIN names_to_instructions' :
                    key[1] # a =>
                        /\ key \in DOMAIN names_to_instructions
                        /\ key \in DOMAIN names_to_instructions'
                        /\ names_to_instructions'[key] = names_to_instructions[key]]_vars
    /\ [](\A key \in DOMAIN names_to_instructions :
            /\ names_to_instructions[key].coll = key[1]
            /\ key[1] \in Range(pc)
            /\ names_to_instructions[key].idx \in DOMAIN instructions[key[1]]
            /\ key[2] \in Range(get_primary_names(
                                instructions[key[1]][names_to_instructions[key].idx]))
                          \cup Range(get_associated_names(
                                instructions[key[1]][names_to_instructions[key].idx])))
    /\ [](Len(pc) = Cardinality(Archs) => names_to_instructions = InStoreOrder)

\* The index was populated for x86-64 before x86, and "a" is an instruction
\* of both, under two keys.
C12_Witness ==
    /\ Len(pc) = 3 /\ pc[1] = "X86_64" /\ pc[2] = "X86"
    /\ \E i \in DOMAIN instructions["X86"], j \in DOMAIN instructions["X86_64"] :
        /\ instructions["X86"][i].name = <<"a">>
        /\ instructions["X86_64"][j].name = <<"a">>
        /\ names_to_instructions[<<"X86", <<"a">>>>] = Ref("X86", i)
        /\ names_to_instructions[<<"X86_64", <<"a">>>>] = Ref("X86_64", j)

(***************************************************************************)
(* SpecParse: one reference document is handed to its parser.  Here the    *)
(* elements of a document may repeat a name, an instruction has up to      *)
(* MaxForms forms and a form up to MaxEncodings Encoding elements, and     *)
(* attributes may carry values their type does not have.  Instruction,     *)
(* InstructionForm, Register and Directive elements have a start and an    *)
(* end tag; an Encoding element has them or is self-closing.               *)
(***************************************************************************)
\* The sequences over S of length 0..n.
SeqsUpTo(S, n) == UNION {[1..k -> S] : k \in 0..n}

\* A form of a z80 document with this name and these Encoding elements.
Z80Form(z, encodings) ==
    [gas_name |-> None, go_name |-> None, z80_name |-> Some(z),
     cancelling_inputs |-> None, encodings |-> encodings]

\* Documents whose instructions carry forms, told apart by their z80name:
\* one instruction with up to MaxForms forms, or up to MaxEntries
\* instructions with two forms at most each.
FormsDocs ==
    {[parser |-> "instructions", arch_name |-> "z80", elems |-> elems] :
        elems \in
            {<<[name |-> n, forms |-> fs]>> :
                n \in ShortNames,
                fs \in SeqsUpTo({Z80Form(z, <<>>) : z \in ShortNames}, MaxForms)}
            \cup SeqsUpTo(
                {[name |-> n, forms |-> fs] :
                    n \in ShortNames,
                    fs \in SeqsUpTo({Z80Form(z, <<>>) : z \in ShortNames}, 2)},
                MaxEntries)}

\* The Encoding elements: a byte attribute, and how the element is written.
Encodings ==
    {[byte |-> "1", self_closing |-> FALSE],
     [byte |-> "2", self_closing |-> FALSE],
     [byte |-> "1", self_closing |-> TRUE]}

\* Documents of one instruction whose forms carry Encoding elements: one
\* form with up to MaxEncodings of them, or up to MaxForms forms with one
\* at most each.
EncodingDocs ==
    {[parser |-> "instructions", arch_name |-> "z80",
      elems |-> <<[name |-> <<"a">>, forms |-> fs]>>] :
        fs \in {<<Z80Form(<<"a">>, es)>> : es \in SeqsUpTo(Encodings, MaxEncodings)}
               \cup SeqsUpTo({Z80Form(<<"a">>, es) : es \in SeqsUpTo(Encodings, 1)},
                              MaxForms)}

\* The values given to a boolean attribute.
BooleanValues == {None, Some("true"), Some("false"), Some("yes")}

\* Instruction documents of every architecture name, with a boolean attribute.
InstrAttrDocs ==
    {[parser |-> "instructions", arch_name |-> an,
      elems |-> <<[name |-> <<"a">>, forms |-> fs]>>] :
        an \in DocArchNames,
        fs \in SeqsUpTo({[gas_name |-> Some(<<"a">>), go_name |-> None, z80_name |-> None,
                          cancelling_inputs |-> b, encodings |-> <<>>] :
                            b \in BooleanValues}, 1)}

\* Register documents: names may repeat, type and width may be unknown.
RegisterDocs ==
    {[parser |-> "registers", arch_name |-> an, elems |-> elems] :
        an \in {"x86", "arm"},
        elems \in SeqsUpTo(
            {[name |-> n, altname |-> None, type |-> tw[1], width |-> tw[2]] :
                n \in ShortNames,
                tw \in {<<None, None>>,
                        <<Some("Pointer Register"), Some("8 bits")>>,
                        <<Some("pointer"), None>>,
                        <<None, Some("8")>>}},
            MaxEntries)}

\* Directive documents: names may repeat, deprecated may not be a boolean.
DirectiveDocs ==
    {[parser |-> "directives", arch_name |-> an, elems |-> elems] :
        an \in {"gas", "nasm"},
        elems \in SeqsUpTo(
            {[name |-> n, deprecated |-> b] : n \in ShortNames, b \in BooleanValues},
            MaxEntries)}

ParseDocs == FormsDocs \cup EncodingDocs \cup InstrAttrDocs \cup RegisterDocs \cup DirectiveDocs

\* No cache directory, no cache file, the documentation server out of reach.
InitParse ==
    /\ IndexIdle
    /\ document \in ParseDocs
    /\ cache_refresh = FALSE
    /\ cache_dir = FALSE
    /\ cache_env = NoCacheEnv
    /\ cache_file = None
    /\ web = None
    /\ fetches = 0
    /\ ingestions = 0
    /\ gdb = NoCall
    /\ xml_pass = EmptyMap
    /\ result = NoResult
    /\ TestIdle

\* populate_instructions on the document: the XML pass, which may end in
\* Err, then for x86 and x86-64 get_docs_body and the URL step.
ParseInstructions ==
    /\ document.parser = "instructions"
    /\ result.tag = "None"
    /\ LET st == InstrParserRun(InstrParserInit, DocEvents(document))
           url == st.outcome = "Ok" /\ IsX86(st)
           out == get_docs_body(cache_refresh, cache_dir, cache_file, web, AllOk)
           step == CASE st.outcome # "Ok" -> [tag |-> st.outcome, values |-> {<<>>}]
                     [] url -> url_step(st.instructions_map, out.call.ret)
                     [] OTHER -> [tag |-> "Ok", values |-> IntoValues(st.instructions_map)]
       IN  /\ xml_pass' = st.instructions_map
           /\ gdb' = IF url THEN out.call ELSE NoCall
           /\ cache_file' = IF url THEN out.file ELSE cache_file
           /\ fetches' = IF url /\ out.call.fetched THEN fetches + 1 ELSE fetches
           /\ \E v \in step.values :
               result' = [tag |-> step.tag, arch |-> st.arch, value |-> v]
    /\ ingestions' = ingestions + 1
    /\ UNCHANGED <<cache_refresh, cache_dir, cache_env, web, document>>
    /\ UNCHANGED index_vars
    /\ UNCHANGED test_vars

\* populate_registers on the document.
ParseRegisters ==
    /\ document.parser = "registers"
    /\ result.tag = "None"
    /\ LET events == DocEvents(document)
           st == RegParserRun(RegParserInit, events)
       IN  IF st.outcome # "Ok"
           THEN result' = [tag |-> st.outcome, arch |-> st.arch, value |-> <<>>]
           ELSE \E v \in populate_registers(events) :
                   result' = [tag |-> "Ok", arch |-> st.arch, value |-> v]
    /\ UNCHANGED <<cache_refresh, cache_dir, cache_env, cache_file, web, fetches, ingestions, gdb,
                   xml_pass, document>>
    /\ UNCHANGED index_vars
    /\ UNCHANGED test_vars

\* populate_directives on the document; deprecated is unwrapped.
ParseDirectives ==
    /\ document.parser = "directives"
    /\ result.tag = "None"
    /\ LET events == DocEvents(document)
           st == DirParserRun(DirParserInit, events)
       IN  IF st.outcome # "Ok"
           THEN result' = [tag |-> st.outcome, arch |-> st.assembler, value |-> <<>>]
           ELSE \E v \in populate_directives(events) :
                   result' = [tag |-> "Ok", arch |-> st.assembler, value |-> v]
    /\ UNCHANGED <<cache_refresh, cache_dir, cache_env, cache_file, web, fetches, ingestions, gdb,
                   xml_pass, document>>
    /\ UNCHANGED index_vars
    /\ UNCHANGED test_vars

NextParse == ParseInstructions \/ ParseRegisters \/ ParseDirectives

SpecParse == InitParse /\ [][NextParse]_vars

\* The parser has returned.
Parsed == result.tag # "None"

(***************************************************************************)
(* Attribute values outside their type.                                    *)
(***************************************************************************)
\* A boolean attribute carries a value that is neither "true" nor "false".
BadBoolean(b) == b \notin {None, Some("true"), Some("false")}

\* The document carries an unparseable boolean or an unrecognized
\* enumerated tag.
Malformed(doc) ==
    CASE doc.parser = "instructions" ->
            \/ ArchFromStr(doc.arch_name) = None
            \/ \E i \in DOMAIN doc.elems : \E j \in DOMAIN doc.elems[i].forms :
                BadBoolean(doc.elems[i].forms[j].cancelling_inputs)
      [] doc.parser = "registers" ->
            \/ ArchFromStr(doc.arch_name) = None
            \/ \E i \in DOMAIN doc.elems :
                \/ IsSome(doc.elems[i].type)
                   /\ RegisterTypeFromStr(Unwrap(doc.elems[i].type)) = None
                \/ IsSome(doc.elems[i].width)
                   /\ RegisterWidthFromStr(Unwrap(doc.elems[i].width)) = None
      [] doc.parser = "directives" ->
            \/ AssemblerFromStr(doc.arch_name) = None
            \/ \E i \in DOMAIN doc.elems : BadBoolean(doc.elems[i].deprecated)
      [] OTHER -> FALSE

\* C13: a parser handed a document with an unparseable boolean or an
\* unrecognized enumerated tag ends in Err or aborts the process; it does
\* not return Ok.
C13_MalformedAttributeFatal ==
    Parsed /\ Malformed(document) => result.tag \in {"Err", "Panic"}

\* What the parsers do for the boolean attributes: cancelling-inputs ends
\* populate_instructions in Err, deprecated aborts populate_directives.
BadBooleanFatal ==
    /\ Parsed /\ document.parser = "instructions"
       /\ (\E i \in DOMAIN document.elems : \E j \in DOMAIN document.elems[i].forms :
               BadBoolean(document.elems[i].forms[j].cancelling_inputs))
       => result.tag = "Err"
    /\ Parsed /\ document.parser = "directives"
       /\ (\E i \in DOMAIN document.elems : BadBoolean(document.elems[i].deprecated))
       => result.tag = "Panic"

(***************************************************************************)
(* What a document says, element by element, to compare the parsers with.  *)
(***************************************************************************)
\* The position of the last element of this name.
LastIndex(elems, n) ==
    CHOOSE i \in DOMAIN elems :
        /\ elems[i].name = n
        /\ \A j \in DOMAIN elems : elems[j].name = n => j <= i

\* The positions of the elements no later element repeats the name of.
Surviving(elems) == {i \in DOMAIN elems : LastIndex(elems, elems[i].name) = i}

\* The attributes of an InstructionForm element, as a form holds them.
FormOfElement(f) ==
    [gas_name |-> f.gas_name, go_name |-> f.go_name, z80_name |-> f.z80_name,
     cancelling_inputs |-> IF f.cancelling_inputs = None THEN None
                           ELSE Some(f.cancelling_inputs = Some("true"))]

\* The same attributes of a parsed form.
FormView(f) ==
    [gas_name |-> f.gas_name, go_name |-> f.go_name, z80_name |-> f.z80_name,
     cancelling_inputs |-> f.cancelling_inputs]

\* The attributes and children of an element, as a record holds them.
RecordOfElement(doc, e) ==
    CASE doc.parser = "instructions" ->
            [name |-> e.name,
             alt_names |-> <<to_uppercase(e.name), to_lowercase(e.name)>>,
             target |-> ArchFromStr(doc.arch_name),
             rest |-> [i \in DOMAIN e.forms |-> FormOfElement(e.forms[i])]]
      [] doc.parser = "registers" ->
            [name |-> e.name,
             alt_names |-> <<to_uppercase(e.name), to_lowercase(e.name)>> \o e.altname,
             target |-> ArchFromStr(doc.arch_name),
             rest |-> <<IF IsSome(e.type) THEN RegisterTypeFromStr(Unwrap(e.type)) ELSE None,
                        IF IsSome(e.width) THEN RegisterWidthFromStr(Unwrap(e.width))
                        ELSE None>>]
      [] doc.parser = "directives" ->
            [name |-> e.name,
             alt_names |-> <<to_uppercase(e.name)>>,
             target |-> AssemblerFromStr(doc.arch_name),
             rest |-> <<e.deprecated = Some("true")>>]

\* The same of a returned record.
RecordView(doc, r) ==
    CASE doc.parser = "instructions" ->
            [name |-> r.name, alt_names |-> r.alt_names, target |-> r.arch,
             rest |-> [i \in DOMAIN r.forms |-> FormView(r.forms[i])]]
      [] doc.parser = "registers" ->
            [name |-> r.name, alt_names |-> r.alt_names, target |-> r.arch,
             rest |-> <<r.reg_type, r.width>>]
      [] doc.parser = "directives" ->
            [name |-> r.name, alt_names |-> r.alt_names, target |-> r.assembler,
             rest |-> <<r.deprecated>>]

\* C14: the vector a parser returns holds one record for each name of the
\* document and no two records of one name; the record of a name carries
\* the attributes and children of the last element of that name, and
\* nothing of an earlier one.
C14_LaterElementWins ==
    Parsed /\ result.tag = "Ok" =>
        /\ \A i, j \in DOMAIN result.value :
            result.value[i].name = result.value[j].name => i = j
        /\ {result.value[i].name : i \in DOMAIN result.value}
           = {document.elems[k].name : k \in DOMAIN document.elems}
        /\ \A i \in DOMAIN result.value :
            RecordView(document, result.value[i])
            = RecordOfElement(document,
                document.elems[LastIndex(document.elems, result.value[i].name)])

\* Two Instruction elements named "a", the first with two forms and the
\* second with one, were parsed into one record.
C14_Witness ==
    /\ Parsed /\ result.tag = "Ok"
    /\ document.parser = "instructions"
    /\ Len(document.elems) = 2
    /\ document.elems[1].name = <<"a">> /\ document.elems[2].name = <<"a">>
    /\ Len(document.elems[1].forms) = 2 /\ Len(document.elems[2].forms) = 1
    /\ Len(result.value) = 1

\* The number of forms of a sequence of instructions or Instruction elements.
RECURSIVE FormCount(_)
FormCount(owners) ==
    IF owners = <<>> THEN 0 ELSE Len(Head(owners).forms) + FormCount(Tail(owners))

\* The forms of an Instruction element, as its instruction holds them.
FormsOfElement(e) == [i \in DOMAIN e.forms |-> FormOfElement(e.forms[i])]

\* The forms of a returned instruction, by their attributes.
FormsView(r) == [i \in DOMAIN r.forms |-> FormView(r.forms[i])]

\* The Instruction elements no later element repeats the name of, in
\* document order.
RECURSIVE SurvivingFrom(_, _)
SurvivingFrom(elems, k) ==
    IF k > Len(elems) THEN <<>>
    ELSE (IF k \in Surviving(elems) THEN <<elems[k]>> ELSE <<>>)
         \o SurvivingFrom(elems, k + 1)

InstructionsParsed ==
    Parsed /\ result.tag = "Ok" /\ document.parser = "instructions"

\* C15 as stated: the forms of every Instruction element of the document
\* are, in document order, the forms of the one instruction of its name,
\* and the output holds as many forms as the document.
C15_EveryFormOnce ==
    InstructionsParsed =>
        /\ \A k \in DOMAIN document.elems :
            \A i \in DOMAIN result.value :
                result.value[i].name = document.elems[k].name =>
                    FormsView(result.value[i]) = FormsOfElement(document.elems[k])
        /\ FormCount(result.value) = FormCount(document.elems)

\* C15, amended: the forms of every Instruction element that no later
\* element repeats the name of are, in document order, the forms of the one
\* instruction of its name, the output holds no other form, and so the forms
\* of an element whose name is repeated later appear nowhere.
C15_FormsOfLastElement ==
    InstructionsParsed =>
        /\ \A k \in Surviving(document.elems) :
            /\ Cardinality({i \in DOMAIN result.value :
                    result.value[i].name = document.elems[k].name}) = 1
            /\ \A i \in DOMAIN result.value :
                result.value[i].name = document.elems[k].name =>
                    FormsView(result.value[i]) = FormsOfElement(document.elems[k])
        /\ FormCount(result.value) = FormCount(SurvivingFrom(document.elems, 1))

\* Two Instruction elements of different names, the first with two
\* different forms and the second with one, were parsed into two
\* instructions.
C15_Witness ==
    /\ InstructionsParsed
    /\ Len(document.elems) = 2
    /\ document.elems[1].name # document.elems[2].name
    /\ Len(document.elems[1].forms) = 2
    /\ document.elems[1].forms[1] # document.elems[1].forms[2]
    /\ Len(document.elems[2].forms) = 1
    /\ FormCount(result.value) = 3

\* b1 ++ " " ++ b2 ++ " " ++ ... for the byte attributes of Encoding elements.
RECURSIVE OpcodeString(_)
OpcodeString(encodings) ==
    IF encodings = <<>> THEN <<>>
    ELSE <<Head(encodings).byte, " ">> \o OpcodeString(Tail(encodings))

\* The Encoding elements of a form that have an end tag.
RECURSIVE WithEndTag(_)
WithEndTag(encodings) ==
    IF encodings = <<>> THEN <<>>
    ELSE (IF Head(encodings).self_closing THEN <<>> ELSE <<Head(encodings)>>)
         \o WithEndTag(Tail(encodings))

\* The z80_opcode of a form whose Encoding elements are these.
OpcodeOf(encodings) ==
    IF encodings = <<>> THEN None ELSE Some(OpcodeString(encodings))

\* C16: the z80_opcode of a returned form is the bytes of the Encoding
\* elements of its InstructionForm element, in document order and each
\* followed by one space, and of no other form; a form without an Encoding
\* element has none.
C16_OpcodeConcatenation ==
    InstructionsParsed =>
        \A k \in Surviving(document.elems) :
            \A i \in DOMAIN result.value :
                result.value[i].name = document.elems[k].name =>
                    /\ Len(result.value[i].forms) = Len(document.elems[k].forms)
                    /\ \A j \in DOMAIN result.value[i].forms :
                        result.value[i].forms[j].z80_opcode
                        = OpcodeOf(document.elems[k].forms[j].encodings)

\* What the loop does: the same of the Encoding elements with an end tag;
\* an Encoding element written as an empty-element tag adds nothing.
OpcodeOfEncodingsWithEndTag ==
    InstructionsParsed =>
        \A k \in Surviving(document.elems) :
            \A i \in DOMAIN result.value :
                result.value[i].name = document.elems[k].name =>
                    /\ Len(result.value[i].forms) = Len(document.elems[k].forms)
                    /\ \A j \in DOMAIN result.value[i].forms :
                        result.value[i].forms[j].z80_opcode
                        = OpcodeOf(WithEndTag(document.elems[k].forms[j].encodings))

\* A form with two Encoding elements with end tags and different bytes was
\* parsed.
TwoEncodingsParsed ==
    /\ InstructionsParsed
    /\ \E k \in DOMAIN document.elems : \E j \in DOMAIN document.elems[k].forms :
        LET encs == document.elems[k].forms[j].encodings
        IN  /\ Len(encs) = 2
            /\ encs[1].byte # encs[2].byte
            /\ ~encs[1].self_closing /\ ~encs[2].self_closing

(***************************************************************************)
(* The serialized collections.  bincode writes a string as its length and  *)
(* its characters, an Option as 0 or as 1 and the value, an enum as the    *)
(* index of the variant, a bool as 0 or 1, a Vec as its length and its     *)
(* elements, and a struct as its fields in order.                          *)
(***************************************************************************)
ArchVariants == <<"X86", "X86_64", "Z80">>

AssemblerVariants == <<"Gas">>

RegisterTypeVariants == <<"General Purpose Register", "Pointer Register">>

RegisterWidthVariants == <<"8 bits", "16 bits">>

EncStr(s) == <<Len(s)>> \o s

EncOptStr(o) == IF o = None THEN <<0>> ELSE <<1>> \o EncStr(Unwrap(o))

EncOptEnum(variants, o) ==
    IF o = None THEN <<0>>
    ELSE <<1, (CHOOSE i \in DOMAIN variants : variants[i] = Unwrap(o)) - 1>>

EncBool(b) == <<IF b THEN 1 ELSE 0>>

EncOptBool(o) == IF o = None THEN <<0>> ELSE <<1>> \o EncBool(Unwrap(o))

RECURSIVE EncStrsFrom(_)
EncStrsFrom(v) == IF v = <<>> THEN <<>> ELSE EncStr(Head(v)) \o EncStrsFrom(Tail(v))

EncStrs(v) == <<Len(v)>> \o EncStrsFrom(v)

OperandTypeVariants == <<"r8", "imm8", "k">>

ISAVariants == <<"MMX", "SSE2">>

Z80TimingInfoValues == <<"default", "4", "5", "7", "11">>

EncOptNum(o) == IF o = None THEN <<0>> ELSE <<1, Unwrap(o)>>

EncOperand(o) ==
    EncOptEnum(OperandTypeVariants, Some(o.type_)) \o EncOptBool(o.input)
    \o EncOptBool(o.output) \o EncOptNum(o.extended_size)

RECURSIVE EncOperandsFrom(_)
EncOperandsFrom(v) ==
    IF v = <<>> THEN <<>> ELSE EncOperand(Head(v)) \o EncOperandsFrom(Tail(v))

EncOptTiming(o) ==
    IF o = None THEN <<0>>
    ELSE <<1>> \o EncOptEnum(Z80TimingInfoValues, Some(Unwrap(o).z80))
         \o EncOptEnum(Z80TimingInfoValues, Some(Unwrap(o).z80_plus_m1))
         \o EncOptEnum(Z80TimingInfoValues, Some(Unwrap(o).r800))
         \o EncOptEnum(Z80TimingInfoValues, Some(Unwrap(o).r800_plus_wait))

EncForm(f) ==
    EncOptStr(f.gas_name) \o EncOptStr(f.go_name) \o EncOptStr(f.z80_name)
    \o EncOptBool(f.cancelling_inputs) \o EncOptStr(f.z80_opcode)
    \o <<Len(f.operands)>> \o EncOperandsFrom(f.operands)
    \o EncOptEnum(ISAVariants, f.isa) \o EncOptTiming(f.z80_timing)

EncFlag(f) == <<f.bit>> \o EncStr(<<f.label>>)

RECURSIVE EncFlagsFrom(_)
EncFlagsFrom(v) == IF v = <<>> THEN <<>> ELSE EncFlag(Head(v)) \o EncFlagsFrom(Tail(v))

RECURSIVE EncFormsFrom(_)
EncFormsFrom(v) == IF v = <<>> THEN <<>> ELSE EncForm(Head(v)) \o EncFormsFrom(Tail(v))

\* One record of the collection a parser returns.
EncRecord(parser, r) ==
    CASE parser = "instructions" ->
            EncStr(r.name) \o EncStrs(r.alt_names)
            \o <<Len(r.forms)>> \o EncFormsFrom(r.forms)
            \o EncOptStr(r.url) \o EncOptEnum(ArchVariants, r.arch)
      [] parser = "registers" ->
            EncStr(r.name) \o EncStrs(r.alt_names) \o EncOptEnum(ArchVariants, r.arch)
            \o EncOptEnum(RegisterTypeVariants, r.reg_type)
            \o EncOptEnum(RegisterWidthVariants, r.width)
            \o <<Len(r.flag_info)>> \o EncFlagsFrom(r.flag_info)
      [] parser = "directives" ->
            EncStr(r.name) \o EncStrs(r.alt_names)
            \o EncOptEnum(AssemblerVariants, r.assembler) \o EncBool(r.deprecated)
            \o EncStrs([i \in DOMAIN r.signatures |-> <<r.signatures[i]>>])

RECURSIVE EncRecordsFrom(_, _)
EncRecordsFrom(parser, v) ==
    IF v = <<>> THEN <<>>
    ELSE EncRecord(parser, Head(v)) \o EncRecordsFrom(parser, Tail(v))

\* bincode::serialize(&Vec<_>)
bincode_serialize(parser, v) == <<Len(v)>> \o EncRecordsFrom(parser, v)

\* The decoders take the bytes from the value on and give the value and the
\* bytes after it.
Drop(b, n) == SubSeq(b, n + 1, Len(b))

\* F of the value decoded: the read of one field, then the reads after it.
\* The field is decoded once, whatever F does with it.
Then(d, F(_)) == CHOOSE r \in {F(x) : x \in {d}} : TRUE

DecStr(b) == [val |-> SubSeq(b, 2, b[1] + 1), rest |-> Drop(b, b[1] + 1)]

DecOptStr(b) ==
    IF b[1] = 0 THEN [val |-> None, rest |-> Drop(b, 1)]
    ELSE Then(DecStr(Drop(b, 1)), LAMBDA d : [val |-> Some(d.val), rest |-> d.rest])

DecOptEnum(variants, b) ==
    IF b[1] = 0 THEN [val |-> None, rest |-> Drop(b, 1)]
    ELSE [val |-> Some(variants[b[2] + 1]), rest |-> Drop(b, 2)]

DecBool(b) == [val |-> b[1] = 1, rest |-> Drop(b, 1)]

DecOptBool(b) ==
    IF b[1] = 0 THEN [val |-> None, rest |-> Drop(b, 1)]
    ELSE [val |-> Some(b[2] = 1), rest |-> Drop(b, 2)]

RECURSIVE DecStrsFrom(_, _)
DecStrsFrom(n, b) ==
    IF n = 0 THEN [val |-> <<>>, rest |-> b]
    ELSE Then(DecStr(b), LAMBDA d :
         Then(DecStrsFrom(n - 1, d.rest), LAMBDA e :
         [val |-> <<d.val>> \o e.val, rest |-> e.rest]))

DecStrs(b) == DecStrsFrom(b[1], Drop(b, 1))

DecOptNum(b) ==
    IF b[1] = 0 THEN [val |-> None, rest |-> Drop(b, 1)]
    ELSE [val |-> Some(b[2]), rest |-> Drop(b, 2)]

DecOperand(b) ==
    Then(DecOptEnum(OperandTypeVariants, b), LAMBDA type_ :
    Then(DecOptBool(type_.rest), LAMBDA input :
    Then(DecOptBool(input.rest), LAMBDA output :
    Then(DecOptNum(output.rest), LAMBDA size :
    [val |-> [type_ |-> Unwrap(type_.val), input |-> input.val,
              output |-> output.val, extended_size |-> size.val],
     rest |-> size.rest]))))

RECURSIVE DecOperandsFrom(_, _)
DecOperandsFrom(n, b) ==
    IF n = 0 THEN [val |-> <<>>, rest |-> b]
    ELSE Then(DecOperand(b), LAMBDA d :
         Then(DecOperandsFrom(n - 1, d.rest), LAMBDA e :
         [val |-> <<d.val>> \o e.val, rest |-> e.rest]))

DecOptTiming(b) ==
    IF b[1] = 0 THEN [val |-> None, rest |-> Drop(b, 1)]
    ELSE Then(DecOptEnum(Z80TimingInfoValues, Drop(b, 1)), LAMBDA z80 :
         Then(DecOptEnum(Z80TimingInfoValues, z80.rest), LAMBDA z80_plus_m1 :
         Then(DecOptEnum(Z80TimingInfoValues, z80_plus_m1.rest), LAMBDA r800 :
         Then(DecOptEnum(Z80TimingInfoValues, r800.rest), LAMBDA r800_plus_wait :
         [val |-> Some([z80 |-> Unwrap(z80.val),
                        z80_plus_m1 |-> Unwrap(z80_plus_m1.val),
                        r800 |-> Unwrap(r800.val),
                        r800_plus_wait |-> Unwrap(r800_plus_wait.val)]),
          rest |-> r800_plus_wait.rest]))))

DecForm(b) ==
    Then(DecOptStr(b), LAMBDA gas :
    Then(DecOptStr(gas.rest), LAMBDA go :
    Then(DecOptStr(go.rest), LAMBDA z80 :
    Then(DecOptBool(z80.rest), LAMBDA cancelling :
    Then(DecOptStr(cancelling.rest), LAMBDA opcode :
    Then(DecOperandsFrom(opcode.rest[1], Drop(opcode.rest, 1)), LAMBDA operands :
    Then(DecOptEnum(ISAVariants, operands.rest), LAMBDA isa :
    Then(DecOptTiming(isa.rest), LAMBDA timing :
    [val |-> [gas_name |-> gas.val, go_name |-> go.val, z80_name |-> z80.val,
              cancelling_inputs |-> cancelling.val, z80_opcode |-> opcode.val,
              operands |-> operands.val, isa |-> isa.val, z80_timing |-> timing.val],
     rest |-> timing.rest]))))))))

DecFlag(b) ==
    Then(DecStr(Drop(b, 1)), LAMBDA label :
    [val |-> [bit |-> b[1], label |-> label.val[1]], rest |-> label.rest])

RECURSIVE DecFlagsFrom(_, _)
DecFlagsFrom(n, b) ==
    IF n = 0 THEN [val |-> <<>>, rest |-> b]
    ELSE Then(DecFlag(b), LAMBDA d :
         Then(DecFlagsFrom(n - 1, d.rest), LAMBDA e :
         [val |-> <<d.val>> \o e.val, rest |-> e.rest]))

RECURSIVE DecFormsFrom(_, _)
DecFormsFrom(n, b) ==
    IF n = 0 THEN [val |-> <<>>, rest |-> b]
    ELSE Then(DecForm(b), LAMBDA d :
         Then(DecFormsFrom(n - 1, d.rest), LAMBDA e :
         [val |-> <<d.val>> \o e.val, rest |-> e.rest]))

DecInstruction(name, alt_names) ==
    Then(DecFormsFrom(alt_names.rest[1], Drop(alt_names.rest, 1)), LAMBDA forms :
    Then(DecOptStr(forms.rest), LAMBDA url :
    Then(DecOptEnum(ArchVariants, url.rest), LAMBDA arch :
    [val |-> [name |-> name.val, alt_names |-> alt_names.val,
              forms |-> forms.val, url |-> url.val, arch |-> arch.val],
     rest |-> arch.rest])))

DecRegister(name, alt_names) ==
    Then(DecOptEnum(ArchVariants, alt_names.rest), LAMBDA arch :
    Then(DecOptEnum(RegisterTypeVariants, arch.rest), LAMBDA reg_type :
    Then(DecOptEnum(RegisterWidthVariants, reg_type.rest), LAMBDA width :
    Then(DecFlagsFrom(width.rest[1], Drop(width.rest, 1)), LAMBDA flags :
    [val |-> [name |-> name.val, alt_names |-> alt_names.val,
              arch |-> arch.val, reg_type |-> reg_type.val,
              width |-> width.val, flag_info |-> flags.val],
     rest |-> flags.rest]))))

DecDirective(name, alt_names) ==
    Then(DecOptEnum(AssemblerVariants, alt_names.rest), LAMBDA assembler :
    Then(DecBool(assembler.rest), LAMBDA deprecated :
    Then(DecStrs(deprecated.rest), LAMBDA signatures :
    [val |-> [name |-> name.val, alt_names |-> alt_names.val,
              assembler |-> assembler.val, deprecated |-> deprecated.val,
              signatures |-> [i \in DOMAIN signatures.val |-> signatures.val[i][1]]],
     rest |-> signatures.rest])))

DecRecord(parser, b) ==
    Then(DecStr(b), LAMBDA name :
    Then(DecStrs(name.rest), LAMBDA alt_names :
    CASE parser = "instructions" -> DecInstruction(name, alt_names)
      [] parser = "registers" -> DecRegister(name, alt_names)
      [] parser = "directives" -> DecDirective(name, alt_names)))

RECURSIVE DecRecordsFrom(_, _, _)
DecRecordsFrom(parser, n, b) ==
    IF n = 0 THEN <<>>
    ELSE Then(DecRecord(parser, b), LAMBDA d :
         <<d.val>> \o DecRecordsFrom(parser, n - 1, d.rest))

\* bincode::deserialize::<Vec<_>>
bincode_deserialize(parser, b) == DecRecordsFrom(parser, b[1], Drop(b, 1))

(***************************************************************************)
(* The serialized_*_are_up_to_date tests.  A snapshot is the serialized    *)
(* output of a parser on the raw document it ships with, written where the *)
(* documentation server may or may not have been in reach; the test reads  *)
(* the snapshot back, parses the raw document again and compares the two   *)
(* collections through a map of counts.                                    *)
(***************************************************************************)
\* The pages served: "", a page with an anchor naming "a", a page with a
\* cell without an anchor.
SnapshotPages == {EmptyBody, <<NoMatch, Anchor(<<"x">>, <<"a">>)>>, <<NoMatch, NoMatch>>}

\* The raw documents that ship: no two elements of the same name.  The
\* names are "a" and "A".
ShortElementNames == {ns \in ElementNames : \A i \in DOMAIN ns : ns[i] \in ShortNames}

SnapshotInstrElems(arch_name) ==
    UNION {{[i \in DOMAIN ns |-> [name |-> ns[i], forms |-> fs[i]]] :
                fs \in [DOMAIN ns -> FormLists(arch_name)]} :
            ns \in ShortElementNames}

SnapshotDocs ==
    UNION {{[parser |-> "instructions", arch_name |-> an, elems |-> elems] :
                elems \in SnapshotInstrElems(an)} : an \in {"x86", "z80"}}
    \cup {[parser |-> "registers", arch_name |-> "x86", elems |-> elems] :
            elems \in {e \in RegElems : \A i \in DOMAIN e : e[i].name \in ShortNames}}
    \cup {[parser |-> "directives", arch_name |-> "gas", elems |-> elems] :
            elems \in {e \in DirElems : \A i \in DOMAIN e : e[i].name \in ShortNames}}

\* What a parser may return for a document: the tag and the records, in any
\* of the orders into_values may give them.
Ingestions(doc, page, fetch_ok) ==
    CASE doc.parser = "instructions" ->
            LET st == InstrParserRun(InstrParserInit,
                                     InstrDocEvents(doc.arch_name, doc.elems))
                env == [AllOk EXCEPT !.fetch_ok = fetch_ok]
                out == get_docs_body(FALSE, FALSE, None, page, env)
                step == CASE st.outcome # "Ok" -> [tag |-> st.outcome, values |-> {<<>>}]
                          [] st.outcome = "Ok" /\ IsX86(st) ->
                                url_step(st.instructions_map, out.call.ret)
                          [] OTHER ->
                                [tag |-> "Ok", values |-> IntoValues(st.instructions_map)]
            IN  {[tag |-> step.tag, value |-> v] : v \in step.values}
      [] doc.parser = "registers" ->
            {[tag |-> "Ok", value |-> v] :
                v \in populate_registers(RegDocEvents(doc.arch_name, doc.elems))}
      [] doc.parser = "directives" ->
            LET events == DirDocEvents(doc.arch_name, doc.elems)
                st == DirParserRun(DirParserInit, events)
            IN  IF st.outcome # "Ok" THEN {[tag |-> st.outcome, value |-> <<>>]}
                ELSE {[tag |-> "Ok", value |-> v] : v \in populate_directives(events)}

\* The comparison, were the url fields left as they are.
KeepUrl(parser, r) == r

\* instr.url = None, on the instructions of both collections.
ClearUrl(parser, r) == IF parser = "instructions" THEN [r EXCEPT !.url = None] ELSE r

ClearUrls(parser, v) == [i \in DOMAIN v |-> ClearUrl(parser, v[i])]

\* *cmp_map.entry(r.clone()).or_insert(0) += 1, for each record of ser_vec.
RECURSIVE CountUp(_, _)
CountUp(cmp_map, ser_vec) ==
    IF ser_vec = <<>> THEN cmp_map
    ELSE LET r == Head(ser_vec)
             count == IF r \in DOMAIN cmp_map THEN cmp_map[r] ELSE 0
         IN  CountUp(Insert(cmp_map, r, count + 1), Tail(ser_vec))

\* cmp_map.get_mut(&r).unwrap(), the panic on a count of 0, and the
\* decrement, for each record of raw_vec.
RECURSIVE CountDown(_, _)
CountDown(cmp_map, raw_vec) ==
    IF raw_vec = <<>> THEN [panicked |-> FALSE, cmp_map |-> cmp_map]
    ELSE LET r == Head(raw_vec)
         IN  IF r \notin DOMAIN cmp_map \/ cmp_map[r] = 0
             THEN [panicked |-> TRUE, cmp_map |-> cmp_map]
             ELSE CountDown([cmp_map EXCEPT ![r] = @ - 1], Tail(raw_vec))

\* The body of a serialized_*_are_up_to_date test after the two collections
\* are read: "pass", or "panic".
up_to_date(parser, ser_vec, raw_vec) ==
    LET counted == CountUp(EmptyMap, ClearUrls(parser, ser_vec))
        left == CountDown(counted, ClearUrls(parser, raw_vec))
    IN  IF left.panicked \/ \E r \in DOMAIN left.cmp_map : left.cmp_map[r] # 0
        THEN "panic" ELSE "pass"

InitSnapshot ==
    /\ IndexIdle
    /\ document \in SnapshotDocs
    /\ cache_refresh = FALSE
    /\ cache_dir = FALSE
    /\ cache_env = NoCacheEnv
    /\ cache_file = None
    /\ web \in SnapshotPages
    /\ fetches = 0
    /\ ingestions = 0
    /\ gdb = NoCall
    /\ xml_pass = EmptyMap
    /\ result = NoResult
    /\ TestIdle

\* The snapshot is written: the document is parsed and the records are
\* serialized in the order the parser returned them.
WriteSnapshot ==
    /\ snapshot = None
    /\ \E fetch_ok \in BOOLEAN :
        \E o \in Ingestions(document, Some(web), fetch_ok) :
            /\ o.tag = "Ok"
            /\ snapshot' = Some(bincode_serialize(document.parser, o.value))
    /\ UNCHANGED <<hover, serve_vars>>
    /\ UNCHANGED index_vars
    /\ UNCHANGED docs_vars

\* The test parses the raw document.
ReIngest ==
    /\ pc = "ingestion"
    /\ result.tag = "None"
    /\ \E fetch_ok \in BOOLEAN :
        \E o \in Ingestions(document, Some(web), fetch_ok) :
            result' = [tag |-> o.tag, arch |-> None, value |-> o.value]
    /\ UNCHANGED <<cache_refresh, cache_dir, cache_env, cache_file, web, fetches, ingestions, gdb,
                   xml_pass, document>>
    /\ UNCHANGED index_vars
    /\ UNCHANGED test_vars

\* The test compares the snapshot read back with the records parsed; the
\* unwrap of a parser's Err panics.
CompareSnapshot ==
    /\ pc = "ingestion"
    /\ snapshot # None
    /\ result.tag # "None"
    /\ pc' = IF result.tag # "Ok" THEN "panic"
             ELSE up_to_date(document.parser,
                             bincode_deserialize(document.parser, Unwrap(snapshot)),
                             result.value)
    /\ UNCHANGED <<instructions, registers, directives, names_to_instructions,
                   names_to_registers, names_to_directives>>
    /\ UNCHANGED docs_vars
    /\ UNCHANGED test_vars

NextSnapshot == WriteSnapshot \/ ReIngest \/ CompareSnapshot

SpecSnapshot == InitSnapshot /\ [][NextSnapshot]_vars

\* A record without its url field.
WithoutUrl(r) ==
    IF "url" \in DOMAIN r
    THEN [name |-> r.name, alt_names |-> r.alt_names, forms |-> r.forms, arch |-> r.arch]
    ELSE r

\* The multiset of the records of a collection, without their url fields.
RecordCounts(v) ==
    [r \in {WithoutUrl(v[i]) : i \in DOMAIN v} |->
        Cardinality({i \in DOMAIN v : WithoutUrl(v[i]) = r})]

Compared == pc \in {"pass", "panic"} /\ result.tag = "Ok"

NL == "\n"

\* The architectures and assemblers in the order hover visits them.
HoverArchs == <<"X86", "X86_64", "Z80">>

HoverAssemblers == <<"Gas">>

\* Arch and Assembler, as the headers of the sections show them.
TargetDisplay(t) ==
    CASE t = "X86" -> "[x86]"
      [] t = "X86_64" -> "[x86-64]"
      [] t = "Z80" -> "[z80]"
      [] t = "Gas" -> "[Gas]"

\* parts[1] ++ sep ++ parts[2] ++ sep ++ ...
RECURSIVE Join(_, _)
Join(parts, sep) ==
    IF parts = <<>> THEN <<>>
    ELSE IF Len(parts) = 1 THEN parts[1]
    ELSE parts[1] \o sep \o Join(Tail(parts), sep)

\* One form: a bullet with the names of the form.
FormText(f) == <<"-">> \o Join(FormNames(f), <<"|">>)

\* The section of an instruction: the header, the summary, the forms under
\* their heading, which two blank lines follow, and the link.
InstructionText(instruction) ==
    instruction.name \o <<TargetDisplay(Unwrap(instruction.arch)), NL, "summary">>
    \o (IF instruction.forms = <<>> THEN <<>>
        ELSE <<NL, NL, "## Forms", NL, NL, NL>>
             \o Join([i \in DOMAIN instruction.forms |-> FormText(instruction.forms[i])],
                     <<NL>>))
    \o (IF instruction.url = None THEN <<>> ELSE <<NL, NL, "More info">>)

\* The section of a register: the header, the description, type and width.
RegisterText(register) ==
    register.name
    \o <<TargetDisplay(Unwrap(register.arch)), NL, "description", NL, NL,
         "Type", NL, "Width">>

\* The section of a directive: the header, the description, the signatures.
DirectiveText(directive) ==
    directive.name
    \o <<TargetDisplay(Unwrap(directive.assembler)), NL, "description", NL, NL,
         "signatures">>

\* The sections of the entries the index holds for the name, one for each
\* target that has one, in the order of the targets.
RECURSIVE SectionsFrom(_, _, _, _, _)
SectionsFrom(kind, map, store, targets, name) ==
    IF targets = <<>> THEN <<>>
    ELSE LET t == Head(targets)
             hit == Lookup(map, t, name)
             entry == store[Unwrap(hit).coll][Unwrap(hit).idx]
             text == CASE kind = "instructions" -> InstructionText(entry)
                       [] kind = "registers" -> RegisterText(entry)
                       [] OTHER -> DirectiveText(entry)
         IN  (IF IsSome(hit) THEN <<[target |-> t, text |-> text]>> ELSE <<>>)
             \o SectionsFrom(kind, map, store, Tail(targets), name)

\* The document of the sections: one blank line between two sections.
HoverText(sections) ==
    Join([i \in DOMAIN sections |-> sections[i].text], <<NL, NL>>)

\* str::replace("\n\n\n", "\n\n")
RECURSIVE Replace3(_)
Replace3(text) ==
    IF Len(text) < 3 THEN text
    ELSE IF text[1] = NL /\ text[2] = NL /\ text[3] = NL
         THEN <<NL, NL>> \o Replace3(SubSeq(text, 4, Len(text)))
         ELSE <<Head(text)>> \o Replace3(Tail(text))

\* One instruction at most in an architecture, named "a", with or without
\* a form; one register at most in x86 and in x86-64; one directive at most.
HoverInstructions(arch_name) ==
    UNION {ParsedInstructions(arch_name, elems) :
            elems \in {<<>>} \cup {<<[name |-> <<"a">>, forms |-> fs]>> :
                                    fs \in ArchFormLists(arch_name)}}

HoverRegisters(arch_name) ==
    UNION {populate_registers(RegDocEvents(arch_name, elems)) :
            elems \in {<<>>, <<[name |-> <<"a">>, altname |-> None,
                                 type |-> None, width |-> None]>>}}

HoverDirectives ==
    UNION {populate_directives(DirDocEvents("gas", elems)) :
            elems \in {<<>>} \cup {<<[name |-> n, deprecated |-> None]>> : n \in ShortNames}}

\* init_global_info, and of init_test_store the register and directive
\* indices.
InitHover ==
    /\ \E x \in HoverInstructions("x86"), y \in HoverInstructions("x86-64"),
          z \in HoverInstructions("z80") :
        instructions = [a \in Archs |->
                          CASE a = "X86" -> x [] a = "X86_64" -> y [] a = "Z80" -> z]
    /\ \E x \in HoverRegisters("x86"), y \in HoverRegisters("x86-64") :
        registers = [a \in Archs |->
                          CASE a = "X86" -> x [] a = "X86_64" -> y [] a = "Z80" -> <<>>]
    /\ \E d \in HoverDirectives : directives = [NoDirectives EXCEPT !["Gas"] = d]
    /\ names_to_instructions = EmptyMap
    /\ names_to_registers =
        populate_name_to_register_map("Z80", registers["Z80"],
            populate_name_to_register_map("X86_64", registers["X86_64"],
                populate_name_to_register_map("X86", registers["X86"], EmptyMap)))
    /\ names_to_directives =
        populate_name_to_directive_map("Gas", directives["Gas"], EmptyMap)
    /\ pc = <<>>
    /\ DocsIdle
    /\ TestIdle

\* test_hover: the word and the file word under the cursor, and what the
\* demangler gives for the word.
HoverRequest ==
    /\ Len(pc) = 3
    /\ hover.stage = "none"
    /\ \E w \in ShortNames, fw \in ShortNames, d \in {None, Some(<<"demangled">>)} :
        hover' = [NoHover EXCEPT !.word = w, !.file_word = fw, !.demangled = d,
                                 !.stage = "instructions"]
    /\ UNCHANGED <<snapshot, serve_vars>>
    /\ UNCHANGED index_vars
    /\ UNCHANGED docs_vars

\* One lookup of get_hover_resp: with sections the response is their
\* document, without any the next lookup follows.
HoverLookup(stage, sections, next) ==
    /\ hover.stage = stage
    /\ hover' =
        IF sections # <<>>
        THEN [hover EXCEPT !.lookups = Append(@, stage),
                           !.kind = stage,
                           !.sections = sections,
                           !.resp = Some([kind |-> "markup", value |-> HoverText(sections)]),
                           !.stage = "done"]
        ELSE [hover EXCEPT !.lookups = Append(@, stage), !.stage = next]
    /\ UNCHANGED <<snapshot, serve_vars>>
    /\ UNCHANGED index_vars
    /\ UNCHANGED docs_vars

HoverInstruction ==
    HoverLookup("instructions",
                SectionsFrom("instructions", names_to_instructions, instructions,
                             HoverArchs, hover.word),
                "registers")

HoverRegister ==
    HoverLookup("registers",
                SectionsFrom("registers", names_to_registers, registers,
                             HoverArchs, hover.word),
                "directives")

HoverDirective ==
    HoverLookup("directives",
                SectionsFrom("directives", names_to_directives, directives,
                             HoverAssemblers, hover.word),
                "file_directives")

HoverFileDirective ==
    HoverLookup("file_directives",
                SectionsFrom("directives", names_to_directives, directives,
                             HoverAssemblers, hover.file_word),
                "demangle")

\* The fallback: the demangled word as plain text, or no hover.
HoverDemangle ==
    /\ hover.stage = "demangle"
    /\ hover' = [hover EXCEPT
                    !.lookups = Append(@, "demangle"),
                    !.kind = "demangle",
                    !.resp = IF IsSome(hover.demangled)
                             THEN Some([kind |-> "plain", value |-> Unwrap(hover.demangled)])
                             ELSE None,
                    !.stage = "done"]
    /\ UNCHANGED <<snapshot, serve_vars>>
    /\ UNCHANGED index_vars
    /\ UNCHANGED docs_vars

NextHover ==
    \/ PopulateArch
    \/ HoverRequest
    \/ HoverInstruction
    \/ HoverRegister
    \/ HoverDirective
    \/ HoverFileDirective
    \/ HoverDemangle

SpecHover == InitHover /\ [][NextHover]_vars

HoverDone == hover.stage = "done"

\* The names an entry of a collection goes by.
NamesOf(kind, entry) ==
    {entry.name} \cup Range(entry.alt_names)
    \cup (IF kind = "instructions" THEN Range(FormsNames(entry.forms)) ELSE {})

\* The targets, of these and in their order, in which an entry of the
\* collection goes by the name.
TargetsNaming(kind, store, targets, name) ==
    LET Goes(t) == \E i \in DOMAIN store[t] : name \in NamesOf(kind, store[t][i])
    IN  SelectSeq(targets, Goes)

\* The headers of the sections of a text, in order.
HeadersOf(text) ==
    LET IsHeader(piece) == piece \in {TargetDisplay(t) : t \in Archs \cup Assemblers}
    IN  SelectSeq(text, IsHeader)

\* C18: when the word is a name of instructions (or, failing that, of
\* registers) of several architectures, the hover result is one markdown
\* document whose sections are those of the architectures that have the
\* name, each once, x86 before x86-64 before z80, in whatever order the
\* index was populated.
C18_HoverMergeOrder ==
    HoverDone =>
        LET in_instructions ==
                TargetsNaming("instructions", instructions, HoverArchs, hover.word)
            in_registers == TargetsNaming("registers", registers, HoverArchs, hover.word)
            targets == IF in_instructions # <<>> THEN in_instructions ELSE in_registers
        IN  /\ hover.kind = "instructions" <=> in_instructions # <<>>
            /\ hover.kind = "registers" <=> in_instructions = <<>> /\ in_registers # <<>>
            /\ hover.kind \in {"instructions", "registers"} =>
                /\ [i \in DOMAIN hover.sections |-> hover.sections[i].target] = targets
                /\ IsSome(hover.resp)
                /\ Unwrap(hover.resp).kind = "markup"
                /\ HeadersOf(Unwrap(hover.resp).value)
                   = [i \in DOMAIN targets |-> TargetDisplay(targets[i])]

\* An instruction of x86 and of z80 and none of x86-64 by the word, the
\* index populated from z80 on: the document has the x86 section and then
\* the z80 section.
C18_Witness ==
    /\ HoverDone /\ hover.kind = "instructions"
    /\ pc[1] = "Z80"
    /\ HeadersOf(Unwrap(hover.resp).value) = <<"[x86]", "[z80]">>

\* Two consecutive blank lines: three line breaks in a row.
HasDoubleBlankLine(text) ==
    \E i \in 1..(Len(text) - 2) : text[i] = NL /\ text[i + 1] = NL /\ text[i + 2] = NL

\* One blank line, and no more, before the header of each section after the
\* first.  A header comes after the name of its entry.
SectionsOneBlankLineApart(text) ==
    \A i \in DOMAIN text :
        (i > 2 /\ text[i] \in {TargetDisplay(t) : t \in Archs \cup Assemblers}) =>
            /\ i > 4
            /\ text[i - 2] = NL /\ text[i - 3] = NL /\ text[i - 4] # NL

HoverMarkup == HoverDone /\ IsSome(hover.resp) /\ Unwrap(hover.resp).kind = "markup"

\* C19: the markdown text get_hover_resp returns has exactly one blank line
\* between two sections and nowhere two blank lines in a row.
C19_NoDoubleBlankLine ==
    HoverMarkup =>
        /\ SectionsOneBlankLineApart(Unwrap(hover.resp).value)
        /\ ~HasDoubleBlankLine(Unwrap(hover.resp).value)

\* What holds of the text returned: one blank line between two sections.
ReturnedSectionsOneBlankLineApart ==
    HoverMarkup => SectionsOneBlankLineApart(Unwrap(hover.resp).value)

\* What holds of the text test_hover compares: it is the text returned with
\* the blank lines after the forms heading collapsed by the test.
CleanedNoDoubleBlankLine ==
    HoverMarkup =>
        /\ ~HasDoubleBlankLine(Replace3(Unwrap(hover.resp).value))
        /\ SectionsOneBlankLineApart(Replace3(Unwrap(hover.resp).value))

\* A document of two sections was returned.
TwoSectionsReturned == HoverMarkup /\ Len(hover.sections) = 2

\* The four documentation lookups and the fallback, in the order of
\* get_hover_resp.
HoverOrder == <<"instructions", "registers", "directives", "file_directives", "demangle">>

\* No instruction and no register of any architecture and no directive goes
\* by the word, and no directive goes by the file word.
AllMissed ==
    /\ TargetsNaming("instructions", instructions, HoverArchs, hover.word) = <<>>
    /\ TargetsNaming("registers", registers, HoverArchs, hover.word) = <<>>
    /\ TargetsNaming("directives", directives, HoverAssemblers, hover.word) = <<>>
    /\ TargetsNaming("directives", directives, HoverAssemblers, hover.file_word) = <<>>

\* C20: the demangler is invoked only after the instruction lookup, the
\* register lookup, the directive lookup on the word and the directive
\* lookup on the file word, in this order, have all missed; a word or file
\* word that matches an entry gives a markdown document, never the
\* demangled text, and a word that misses everywhere and demangles gives
\* the demangled text as plain text.
C20_DemangleLast ==
    /\ (hover.stage = "demangle" \/ "demangle" \in Range(hover.lookups)) =>
        /\ AllMissed
        /\ SubSeq(HoverOrder, 1, 4) = SubSeq(hover.lookups, 1, 4)
        /\ Len(hover.lookups) \in {4, 5}
    /\ HoverDone /\ ~AllMissed => HoverMarkup /\ "demangle" \notin Range(hover.lookups)
    /\ HoverDone /\ AllMissed =>
        /\ hover.lookups = HoverOrder
        /\ hover.resp = IF IsSome(hover.demangled)
                        THEN Some([kind |-> "plain", value |-> Unwrap(hover.demangled)])
                        ELSE None

\* A word that no entry goes by, though the store has a directive, was
\* demangled.
C20_Witness ==
    /\ HoverDone
    /\ directives["Gas"] # <<>>
    /\ hover.lookups = HoverOrder
    /\ hover.resp = Some([kind |-> "plain", value |-> <<"demangled">>])

(***************************************************************************)
(* The target filter.  init_global_info maps instr_filter_targets over     *)
(* each deserialized instruction collection and drops the instructions     *)
(* left without forms.                                                     *)
(***************************************************************************)
\* The configurations: each assembler enabled or not.
Configs == [gas : BOOLEAN, go : BOOLEAN, z80 : BOOLEAN]

\* A form with the names of the disabled assemblers masked out.
MaskForm(form, cfg) ==
    [form EXCEPT !.gas_name = IF cfg.gas THEN form.gas_name ELSE None,
                 !.go_name = IF cfg.go THEN form.go_name ELSE None,
                 !.z80_name = IF cfg.z80 THEN form.z80_name ELSE None]

\* A form that carries the name of some assembler.
HasName(form) == FormNames(form) # <<>>

\* instr_filter_targets: the instruction with the forms that keep a name
\* once the names of the disabled assemblers are masked out.
instr_filter_targets(instruction, cfg) ==
    LET masked == [i \in DOMAIN instruction.forms |-> MaskForm(instruction.forms[i], cfg)]
    IN  [instruction EXCEPT !.forms = SelectSeq(masked, HasName)]

\* .map(|instruction| instr_filter_targets(&instruction, &target_config))
MapFilterTargets(instrs, cfg) ==
    [i \in DOMAIN instrs |-> instr_filter_targets(instrs[i], cfg)]

\* |instruction| !instruction.forms.is_empty()
HasForms(instruction) == instruction.forms # <<>>

\* The closure, were it to lack the negation.
HasNoForms(instruction) == instruction.forms = <<>>

\* .filter(..), were its closure to lack the negation.
DropWithForms(instrs) == SelectSeq(instrs, HasNoForms)

\* .filter(|instruction| !instruction.forms.is_empty())
DropWithoutForms(instrs) == SelectSeq(instrs, HasForms)

\* The filter, were the instructions without forms dropped before the map.
FilterCollectionDropFirst(instrs, cfg) ==
    MapFilterTargets(DropWithoutForms(instrs), cfg)

\* One collection of init_global_info: into_iter().map(..).filter(..).collect()
FilterCollection(instrs, cfg) == DropWithoutForms(MapFilterTargets(instrs, cfg))

(***************************************************************************)
(* Cursor resolution.  A document is a sequence of lines, a line a         *)
(* sequence of characters; a source of test_hover has the "<cursor>"       *)
(* marker where the cursor is.  A position is a zero-based line and a      *)
(* zero-based column.                                                      *)
(***************************************************************************)
Marker == "<cursor>"

Alphanumerics == {"a", "A", "2"}

\* The characters of a word: alphanumeric ones, the underscore, and those
\* the caller gives besides ("" for the word, "." for the file word).
IsWordChar(c, extra) == c \in Alphanumerics \cup {"_"} \cup Range(extra)

NotMarker(c) == c # Marker

\* source.replace("<cursor>", "")
source_code(source) == [i \in DOMAIN source |-> SelectSeq(source[i], NotMarker)]

\* The first line with a marker and the index of its first marker.
MarkerPosition(source) ==
    LET HasMarker(i) == Marker \in Range(source[i])
        l == CHOOSE i \in DOMAIN source : HasMarker(i) /\ \A j \in 1..(i - 1) : ~HasMarker(j)
        k == CHOOSE i \in DOMAIN source[l] :
                source[l][i] = Marker /\ \A j \in 1..(i - 1) : source[l][j] # Marker
    IN  [line |-> l - 1, character |-> k - 1]

\* The line of the document, empty when the document has no such line.
LineContents(doc, line) == IF line + 1 \in DOMAIN doc THEN doc[line + 1] ELSE <<>>

\* The column the word around the column starts at.
RECURSIVE WordStart(_, _, _)
WordStart(l, col, extra) ==
    IF col = 0 \/ ~IsWordChar(l[col], extra) THEN col ELSE WordStart(l, col - 1, extra)

\* The column the word around the column ends before.
RECURSIVE WordEnd(_, _, _)
WordEnd(l, col, extra) ==
    IF col >= Len(l) \/ ~IsWordChar(l[col + 1], extra) THEN col
    ELSE WordEnd(l, col + 1, extra)

\* get_word_from_pos_params: the word around the position, expanded to the
\* left and to the right; the empty token for a position outside the
\* document.
get_word_from_pos_params(doc, line, character, extra) ==
    LET l == LineContents(doc, line)
    IN  IF character > Len(l) THEN <<>>
        ELSE SubSeq(l, WordStart(l, character, extra) + 1, WordEnd(l, character, extra))

\* The demangler: the signature of a mangled symbol, None for any other word.
MangledSymbols == {<<"_", "a">>}

Demangle(word) == IF word \in MangledSymbols THEN Some(<<"demangled">>) ELSE None

(***************************************************************************)
(* SpecCursor: test_hover on a store of a few entries.  Instruction "A"    *)
(* has the GAS name "aa" (the z80 name "aa" in z80); x86 may have a second *)
(* instruction "aA" beside it, whose lower-case variant is "aa" too.  The  *)
(* register is "A2", the directive ".a".                                   *)
(***************************************************************************)
GasForm(g) ==
    [gas_name |-> Some(g), go_name |-> None, z80_name |-> None,
     cancelling_inputs |-> None, encodings |-> <<>>]

CursorInstrElems(arch_name) ==
    LET I == [name |-> <<"A">>,
              forms |-> IF arch_name = "z80" THEN <<Z80Form(<<"a", "a">>, <<>>)>>
                        ELSE <<GasForm(<<"a", "a">>)>>]
        J == [name |-> <<"a", "A">>, forms |-> <<GasForm(<<"a", "A">>)>>]
    IN  {<<>>, <<I>>} \cup (IF arch_name = "x86" THEN {<<I, J>>} ELSE {})

\* The instructions of an architecture, as init_global_info leaves them.
CursorInstructions(arch_name) ==
    UNION {{FilterCollection(v, DefaultConfig) : v \in ParsedInstructions(arch_name, elems)} :
            elems \in CursorInstrElems(arch_name)}

CursorRegisters(arch_name) ==
    populate_registers(RegDocEvents(arch_name,
        <<[name |-> <<"A", "2">>, altname |-> None, type |-> None, width |-> None]>>))

CursorDirectives ==
    UNION {populate_directives(DirDocEvents("gas", elems)) :
            elems \in {<<>>, <<[name |-> <<".", "a">>, deprecated |-> None]>>}}

\* The operands with a register in parentheses after an offset or a label.
OffsetOperands ==
    {off \o <<"(", "%">> \o reg \o <<")">> :
        off \in {<<"-", "2">>, <<"_", "a">>}, reg \in {<<"a", "2">>, <<"A">>}}

\* The lines of the documents: none, an instruction with a register
\* operand, with an offset operand alone or before another operand, and
\* directives.
CursorLines ==
    {<<>>, <<"a", "a", " ", "%", "a", "2">>, <<".", "a">>,
     <<" ", ".", "a", " ", "\"", "a", ".", "a", "\"">>}
    \cup {<<"a", " ">> \o op : op \in OffsetOperands}
    \cup {<<"a", " ">> \o op \o <<",", " ", "%", "a", "2">> : op \in OffsetOperands}

WithMarker(l, k) == SubSeq(l, 1, k) \o <<Marker>> \o SubSeq(l, k + 1, Len(l))

\* The sources of test_hover: one line, or a line after another, with the
\* marker in any place of the line.
CursorSources ==
    UNION {{<<WithMarker(l, k)>> : k \in 0..Len(l)} : l \in CursorLines}
    \cup {<<<<"a">>, WithMarker(<<"%", "a", "2">>, k)>> : k \in 0..3}

\* init_global_info and init_test_store.
InitCursor ==
    /\ \E x \in CursorInstructions("x86"), y \in CursorInstructions("x86-64"),
          z \in CursorInstructions("z80") :
        instructions = [a \in Archs |->
                          CASE a = "X86" -> x [] a = "X86_64" -> y [] a = "Z80" -> z]
    /\ \/ registers = NoRegisters
       \/ \E x \in CursorRegisters("x86"), y \in CursorRegisters("x86-64") :
            registers = [a \in Archs |->
                          CASE a = "X86" -> x [] a = "X86_64" -> y [] a = "Z80" -> <<>>]
    /\ \E d \in CursorDirectives : directives = [NoDirectives EXCEPT !["Gas"] = d]
    /\ names_to_instructions = InStoreOrder
    /\ names_to_registers =
        populate_name_to_register_map("Z80", registers["Z80"],
            populate_name_to_register_map("X86_64", registers["X86_64"],
                populate_name_to_register_map("X86", registers["X86"], EmptyMap)))
    /\ names_to_directives =
        populate_name_to_directive_map("Gas", directives["Gas"], EmptyMap)
    /\ pc = HoverArchs
    /\ DocsIdle
    /\ TestIdle

\* The call, were the word taken with the register sigil as a character of
\* a word.
HoverCallSigilInWord(doc, line, character) ==
    LET word == get_word_from_pos_params(doc, line, character, <<"%">>)
        file_word == get_word_from_pos_params(doc, line, character, <<".">>)
    IN  [NoHover EXCEPT !.word = word, !.file_word = file_word,
                        !.demangled = Demangle(word), !.stage = "instructions"]

\* The get_hover_resp call for the word and the file word at the position.
HoverCall(doc, line, character) ==
    LET word == get_word_from_pos_params(doc, line, character, <<>>)
        file_word == get_word_from_pos_params(doc, line, character, <<".">>)
    IN  [NoHover EXCEPT !.word = word, !.file_word = file_word,
                        !.demangled = Demangle(word), !.stage = "instructions"]

\* test_hover up to the get_hover_resp call: the document is the source
\* without the marker, the position is where the marker was.
TestHover ==
    /\ hover.stage = "none"
    /\ \E source \in CursorSources :
        LET doc == source_code(source)
            position == MarkerPosition(source)
        IN  /\ cursor' = [source |-> doc, line |-> position.line,
                          character |-> position.character]
            /\ hover' = HoverCall(doc, position.line, position.character)
    /\ UNCHANGED <<snapshot, config, completion_items, requests>>
    /\ UNCHANGED index_vars
    /\ UNCHANGED docs_vars

\* A hover request of an editor: any position, in or outside the document.
HoverAt ==
    /\ hover.stage = "none"
    /\ \E doc \in {<<>>, <<<<>>>>, <<<<"a", "a", " ", "%", "a", "2">>>>},
          line \in 0..1, character \in 0..7 :
        /\ cursor' = [source |-> doc, line |-> line, character |-> character]
        /\ hover' = HoverCall(doc, line, character)
    /\ UNCHANGED <<snapshot, config, completion_items, requests>>
    /\ UNCHANGED index_vars
    /\ UNCHANGED docs_vars

NextCursor ==
    \/ TestHover
    \/ HoverAt
    \/ HoverInstruction
    \/ HoverRegister
    \/ HoverDirective
    \/ HoverFileDirective
    \/ HoverDemangle

SpecCursor == InitCursor /\ [][NextCursor]_vars

\* The line the cursor is on.
CursorLine == LineContents(cursor.source, cursor.line)

\* The register names of the offset and relative-addressing operands of a
\* line, as the columns of their first and last character (from 1): the
\* alphanumeric characters between "(%" and ")", the parenthesis preceded
\* by an offset or a label.
OperandRegisters(l) ==
    {ij \in (DOMAIN l) \X (DOMAIN l) :
        /\ ij[1] <= ij[2]
        /\ ij[1] > 3
        /\ l[ij[1] - 1] = "%"
        /\ l[ij[1] - 2] = "("
        /\ l[ij[1] - 3] \in Alphanumerics \cup {"_"}
        /\ ij[2] < Len(l)
        /\ l[ij[2] + 1] = ")"
        /\ \A k \in ij[1]..ij[2] : l[k] \in Alphanumerics}

\* The operand registers the cursor is on a character of.
RegistersAtCursor ==
    {ij \in OperandRegisters(CursorLine) : cursor.character + 1 \in ij[1]..ij[2]}

\* C21: with the cursor on any character of the register name of an
\* operand such as -20(%rbp) or label(%rip), the word in identifier mode is
\* the register name: not the offset, not the label, nothing of the
\* parentheses or the sigil.
C21_OperandRegisterWord ==
    hover.stage # "none" =>
        \A ij \in RegistersAtCursor :
            /\ hover.word = SubSeq(CursorLine, ij[1], ij[2])
            /\ Range(hover.word) \subseteq Alphanumerics

\* The cursor on the last character of the register of _a(%a2), another
\* operand after it: the word is a2 and the hover document is the
\* register's.
C21_Witness ==
    /\ hover.stage = "done"
    /\ hover.kind = "registers"
    /\ hover.word = <<"a", "2">>
    /\ \E ij \in RegistersAtCursor :
        /\ ij[1] < ij[2]
        /\ cursor.character + 1 = ij[2]
        /\ CursorLine[ij[1] - 3] = "a"
        /\ CursorLine[ij[1] - 4] = "_"
        /\ ij[2] + 1 < Len(CursorLine)

\* The word is the canonical name of no instruction of the store.
NoPrimaryName(word) ==
    \A a \in Archs : \A i \in DOMAIN instructions[a] : instructions[a][i].name # word

\* The instructions of the architecture with a form that carries the name.
InstructionsWithFormName(a, word) ==
    {i \in DOMAIN instructions[a] : word \in Range(FormsNames(instructions[a][i].forms))}

\* The instructions of the architecture that go by the name.
InstructionsNamed(a, word) ==
    {i \in DOMAIN instructions[a] : word \in NamesOf("instructions", instructions[a][i])}

\* The text of the section of the architecture in the hover result, or None.
SectionOf(a) ==
    LET OfArch(section) == section.target = a
        found == SelectSeq(hover.sections, OfArch)
    IN  IF found = <<>> THEN None ELSE Some(found[1].text)

\* C24, as stated: for a word that is the canonical name of no instruction
\* and a form name of instruction I of architecture a, the hover result has
\* the section of I for a, headed by the canonical name of I.
C24_FormNameHover ==
    HoverDone /\ NoPrimaryName(hover.word) =>
        \A a \in Archs : \A i \in InstructionsWithFormName(a, hover.word) :
            /\ hover.kind = "instructions"
            /\ SectionOf(a) = Some(InstructionText(instructions[a][i]))
            /\ SubSeq(Unwrap(SectionOf(a)), 1, Len(instructions[a][i].name))
               = instructions[a][i].name

\* C24, amended: the same for an instruction I that is the only one of its
\* architecture to go by the word; where several go by it, the section of
\* the architecture is that of one of them.  The result has a section for
\* each architecture in which an instruction goes by the word, and no
\* other.
C24_FormNameHoverUnshared ==
    HoverDone /\ NoPrimaryName(hover.word) =>
        /\ \A a \in Archs : \A i \in InstructionsWithFormName(a, hover.word) :
            /\ hover.kind = "instructions"
            /\ \E j \in InstructionsNamed(a, hover.word) :
                SectionOf(a) = Some(InstructionText(instructions[a][j]))
            /\ InstructionsNamed(a, hover.word) = {i} =>
                /\ SectionOf(a) = Some(InstructionText(instructions[a][i]))
                /\ SubSeq(Unwrap(SectionOf(a)), 1, Len(instructions[a][i].name))
                   = instructions[a][i].name
        /\ hover.kind = "instructions" =>
            \A a \in Archs : IsSome(SectionOf(a)) <=> InstructionsNamed(a, hover.word) # {}

\* The word aa, the GAS name of instruction A in x86 and in x86-64 and of
\* no instruction of z80: the document has the two sections of A.
C24_Witness ==
    /\ HoverDone
    /\ hover.word = <<"a", "a">>
    /\ NoPrimaryName(hover.word)
    /\ InstructionsWithFormName("X86", hover.word) # {}
    /\ InstructionsWithFormName("X86_64", hover.word) # {}
    /\ instructions["Z80"] = <<>>
    /\ HeadersOf(Unwrap(hover.resp).value) = <<"[x86]", "[x86-64]">>
    /\ Unwrap(hover.resp).value[1] = "A"

\* No instruction and no register of any architecture and no directive goes
\* by the word.
WordMissed ==
    /\ TargetsNaming("instructions", instructions, HoverArchs, hover.word) = <<>>
    /\ TargetsNaming("registers", registers, HoverArchs, hover.word) = <<>>
    /\ TargetsNaming("directives", directives, HoverAssemblers, hover.word) = <<>>

\* The directives that go by the name.
DirectivesNamed(name) ==
    {i \in DOMAIN directives["Gas"] : name \in NamesOf("directives", directives["Gas"][i])}

\* The directive names of a line, as the columns of the dot and of the last
\* character (from 1): a dot at the start of a token and the alphanumeric
\* characters after it.
DirectiveNames(l) ==
    {ij \in (DOMAIN l) \X (DOMAIN l) :
        /\ ij[1] < ij[2]
        /\ l[ij[1]] = "."
        /\ ij[1] = 1 \/ l[ij[1] - 1] = " "
        /\ \A k \in (ij[1] + 1)..ij[2] : l[k] \in Alphanumerics
        /\ ij[2] = Len(l) \/ l[ij[2] + 1] = " "}

\* The directive names the cursor is on a character of.
DirectiveNamesAtCursor ==
    {ij \in DirectiveNames(CursorLine) : cursor.character + 1 \in ij[1]..ij[2]}

\* C25: when no instruction, register or directive goes by the word, the
\* directive lookup is made again with the file word, and a directive that
\* goes by the file word is the hover result.  With the cursor on a
\* directive name the file word is the name with its dot, and the word is
\* without it, so the result for a word that misses is the section of the
\* directive.
C25_FileWordRetry ==
    /\ HoverDone /\ WordMissed =>
        /\ SubSeq(hover.lookups, 1, 4) = SubSeq(HoverOrder, 1, 4)
        /\ \A i \in DirectivesNamed(hover.file_word) :
            /\ hover.kind = "file_directives"
            /\ hover.resp = Some([kind |-> "markup",
                                  value |-> DirectiveText(directives["Gas"][i])])
    /\ hover.stage # "none" =>
        \A ij \in DirectiveNamesAtCursor :
            /\ hover.file_word = SubSeq(CursorLine, ij[1], ij[2])
            /\ hover.word = IF cursor.character + 1 = ij[1] THEN <<>>
                            ELSE SubSeq(CursorLine, ij[1] + 1, ij[2])
            /\ "." \notin Range(hover.word)

\* The cursor on the a of the directive .a, a string after it: the word a
\* misses, the file word .a gives the section of the directive.
C25_Witness ==
    /\ HoverDone /\ WordMissed
    /\ hover.word = <<"a">>
    /\ hover.file_word = <<".", "a">>
    /\ DirectiveNamesAtCursor # {}
    /\ Len(CursorLine) > 3
    /\ hover.lookups = SubSeq(HoverOrder, 1, 4)
    /\ HeadersOf(Unwrap(hover.resp).value) = <<"[Gas]">>
    /\ SubSeq(Unwrap(hover.resp).value, 1, 2) = <<".", "a">>

(***************************************************************************)
(* SpecServe: initialization and completion, as test_autocomplete runs     *)
(* them.  init_global_info deserializes the collections and filters the    *)
(* instructions by the configuration, init_test_store builds the indices   *)
(* and renders the completion items, then get_comp_resp answers one        *)
(* completion request.                                                     *)
(***************************************************************************)
\* get_completes: one item for each key of the index, labelled by the name
\* of the key, of the kind given, documenting the record the key is bound to.
get_completes(map, kind) ==
    {[label |-> k[2], kind |-> kind, ref |-> map[k]] : k \in DOMAIN map}

\* The three get_completes calls of init_test_store, were the kind of the
\* instruction items given to the register items too.
render_completion_items_one_kind(nti, ntr, ntd) ==
    [instr |-> get_completes(nti, "OPERATOR"),
     reg |-> get_completes(ntr, "OPERATOR"),
     directive |-> get_completes(ntd, "OPERATOR")]

\* The three get_completes calls of init_test_store.
render_completion_items(nti, ntr, ntd) ==
    [instr |-> get_completes(nti, "OPERATOR"),
     reg |-> get_completes(ntr, "VARIABLE"),
     directive |-> get_completes(ntd, "OPERATOR")]

GoForm(o) ==
    [gas_name |-> None, go_name |-> Some(o), z80_name |-> None,
     cancelling_inputs |-> None, encodings |-> <<>>]

GasGoForm(g, o) ==
    [gas_name |-> Some(g), go_name |-> Some(o), z80_name |-> None,
     cancelling_inputs |-> None, encodings |-> <<>>]

\* The serialized instructions: in x86 instruction A with a form of GAS
\* and Go and a form of Go, instruction aA with a form of Go, and
\* instruction AA without forms; in x86-64 instruction A with a form of
\* GAS; in z80 instruction A with a z80 form.
ServeInstrElems(arch_name) ==
    CASE arch_name = "x86" ->
            <<[name |-> <<"A">>,
               forms |-> <<GasGoForm(<<"a", "a">>, <<"A", "A">>), GoForm(<<"A", "a">>)>>],
              [name |-> <<"a", "A">>, forms |-> <<GoForm(<<"a", "A">>)>>],
              [name |-> <<"A", "A">>, forms |-> <<>>]>>
      [] arch_name = "x86-64" -> <<[name |-> <<"A">>, forms |-> <<GasForm(<<"a", "a">>)>>]>>
      [] OTHER -> <<[name |-> <<"A">>, forms |-> <<Z80Form(<<"a", "a">>, <<>>)>>]>>

\* bincode::deserialize of a collection of instructions: the records of
\* the document, in the order the snapshot holds them.
DeserializedInstructions(arch_name) ==
    ParsedInstructions(arch_name, ServeInstrElems(arch_name))

\* The serialized registers of an architecture and the serialized directives.
DeserializedRegisters(arch_name) ==
    populate_registers(RegDocEvents(arch_name,
        <<[name |-> <<"A", "2">>, altname |-> None, type |-> None, width |-> None]>>))

DeserializedDirectives ==
    populate_directives(DirDocEvents("gas", <<[name |-> <<".", "a">>, deprecated |-> None]>>))

\* The process before init_global_info, with the configuration it is given.
InitServe ==
    /\ config \in Configs
    /\ instructions = NoInstructions
    /\ registers = NoRegisters
    /\ directives = NoDirectives
    /\ names_to_instructions = EmptyMap
    /\ names_to_registers = EmptyMap
    /\ names_to_directives = EmptyMap
    /\ pc = "info"
    /\ DocsIdle
    /\ snapshot = None
    /\ hover = NoHover
    /\ completion_items = NoCompletionItems
    /\ cursor = NoCursor
    /\ requests = <<>>

\* init_global_info, were the collections of instructions not filtered.
InitGlobalInfoUnfiltered ==
    /\ pc = "info"
    /\ \E x \in DeserializedInstructions("x86"), y \in DeserializedInstructions("x86-64"),
          z \in DeserializedInstructions("z80") :
        instructions' = [a \in Archs |->
                          CASE a = "X86" -> x [] a = "X86_64" -> y [] a = "Z80" -> z]
    /\ \E x \in DeserializedRegisters("x86"), y \in DeserializedRegisters("x86-64"),
          z \in DeserializedRegisters("z80") :
        registers' = [a \in Archs |->
                          CASE a = "X86" -> x [] a = "X86_64" -> y [] a = "Z80" -> z]
    /\ \E d \in DeserializedDirectives : directives' = [NoDirectives EXCEPT !["Gas"] = d]
    /\ pc' = "instructions"
    /\ UNCHANGED <<names_to_instructions, names_to_registers, names_to_directives>>
    /\ UNCHANGED docs_vars
    /\ UNCHANGED test_vars

\* init_global_info: each collection of instructions is deserialized and
\* filtered, the registers and the directives are deserialized.
InitGlobalInfo ==
    /\ pc = "info"
    /\ \E x \in DeserializedInstructions("x86"), y \in DeserializedInstructions("x86-64"),
          z \in DeserializedInstructions("z80") :
        instructions' = [a \in Archs |->
                          FilterCollection(
                            CASE a = "X86" -> x [] a = "X86_64" -> y [] a = "Z80" -> z,
                            config)]
    /\ \E x \in DeserializedRegisters("x86"), y \in DeserializedRegisters("x86-64"),
          z \in DeserializedRegisters("z80") :
        registers' = [a \in Archs |->
                          CASE a = "X86" -> x [] a = "X86_64" -> y [] a = "Z80" -> z]
    /\ \E d \in DeserializedDirectives : directives' = [NoDirectives EXCEPT !["Gas"] = d]
    /\ pc' = "instructions"
    /\ UNCHANGED <<names_to_instructions, names_to_registers, names_to_directives>>
    /\ UNCHANGED docs_vars
    /\ UNCHANGED test_vars

\* init_test_store, the three get_completes calls.
RenderCompletes ==
    /\ pc = "done"
    /\ completion_items' =
        render_completion_items(names_to_instructions, names_to_registers,
                                names_to_directives)
    /\ pc' = "ready"
    /\ UNCHANGED <<instructions, registers, directives, names_to_instructions,
                   names_to_registers, names_to_directives>>
    /\ UNCHANGED docs_vars
    /\ UNCHANGED <<snapshot, hover, config, cursor, requests>>

\* A request: the document and the position, for a completion request
\* the trigger, for a hover request the two words; how far it got and
\* what it returned.
NewRequest(kind, doc, line, character) ==
    [kind |-> kind, doc |-> doc, line |-> line, character |-> character,
     trigger_kind |-> "INVOKED", trigger_character |-> None,
     word |-> <<>>, file_word |-> <<>>, demangled |-> None,
     stage |-> "called", lookups |-> <<>>, resp |-> None]

\* The column of the position, within the line.
ColumnIn(l, character) == IF character > Len(l) THEN Len(l) ELSE character

\* Where the token in progress at the cursor stands: after the register
\* sigil, after the directive sigil, at the place of a mnemonic (nothing but
\* blanks before it on the line), or at the place of an operand.
LexicalContext(doc, line, character) ==
    LET l == LineContents(doc, line)
        start == WordStart(l, ColumnIn(l, character), <<>>)
    IN  IF start > 0 /\ l[start] = "%" THEN "register"
        ELSE IF start > 0 /\ l[start] = "." THEN "directive"
        ELSE IF \A k \in 1..start : l[k] = " " THEN "mnemonic"
        ELSE "operand"

\* get_comp_resp: the register items for the register sigil as trigger
\* character, the directive items for the directive sigil; for an invoked
\* request the register items at a register or an operand, the
\* instruction and the directive items at a mnemonic or a directive.  The
\* lists are sent whole.
get_comp_resp(doc, params, instr_comps, dir_comps, reg_comps) ==
    LET triggered == params.trigger_kind = "TRIGGER_CHARACTER"
        context == LexicalContext(doc, params.line, params.character)
    IN  IF triggered /\ params.trigger_character = Some("%")
        THEN [items |-> reg_comps]
        ELSE IF triggered /\ params.trigger_character = Some(".")
        THEN [items |-> dir_comps]
        ELSE IF context \in {"register", "operand"}
        THEN [items |-> reg_comps]
        ELSE [items |-> instr_comps \cup dir_comps]

\* The get_comp_resp call of test_autocomplete, were the register items
\* given in the place of the instruction items and the other way round.
CompletionCallSwapped(req, items) ==
    get_comp_resp(req.doc, req, items.reg, items.directive, items.instr)

\* The get_comp_resp call of test_autocomplete.
CompletionCall(req, items) ==
    get_comp_resp(req.doc, req, items.instr, items.directive, items.reg)

\* The lines of the documents completion is asked in: a mnemonic begun,
\* register operands begun with and without the sigil, in parentheses and
\* after an offset, directives begun.
CompletionLines ==
    {<<>>, <<"a">>, <<"a", "a", " ", "%">>, <<" ", "a", " ", "%", "a", ",", " ", "%", "a", "2">>,
     <<"a", " ", "%", "a", ",", " ", "-", "2", "(", "%", "a", ")">>,
     <<"a", " ", "_", "a", "(", "%", "a", ")", ",", " ", "%", "a">>,
     <<"A", " ", "A">>, <<" ", "A", " ", "A", ",", " ", "A", "A">>,
     <<" ", "A", " ", "(", "A", ")">>,
     <<".">>, <<" ", ".", "a">>, <<" ", ".", "a", " ", "\"", "a", ".", "a", "\"">>}

CompletionSources ==
    UNION {{<<WithMarker(l, k)>> : k \in 0..Len(l)} : l \in CompletionLines}

\* CompletionContext: invoked, or triggered by a sigil.
Triggers ==
    {[trigger_kind |-> "INVOKED", trigger_character |-> None],
     [trigger_kind |-> "TRIGGER_CHARACTER", trigger_character |-> Some("%")],
     [trigger_kind |-> "TRIGGER_CHARACTER", trigger_character |-> Some(".")]}

\* test_autocomplete up to the get_comp_resp call.
TestAutocomplete ==
    /\ pc = "ready"
    /\ requests = <<>>
    /\ \E source \in CompletionSources, trigger \in Triggers :
        LET position == MarkerPosition(source)
        IN  requests' =
                <<[NewRequest("completion", source_code(source), position.line,
                              position.character)
                    EXCEPT !.trigger_kind = trigger.trigger_kind,
                           !.trigger_character = trigger.trigger_character]>>
    /\ UNCHANGED <<snapshot, hover, config, completion_items, cursor>>
    /\ UNCHANGED index_vars
    /\ UNCHANGED docs_vars

\* The get_comp_resp call of request r returns.
CompletionRespond(r) ==
    /\ r \in DOMAIN requests
    /\ requests[r].kind = "completion"
    /\ requests[r].stage = "called"
    /\ requests' = [requests EXCEPT
                        ![r].resp = Some(CompletionCall(requests[r], completion_items)),
                        ![r].stage = "done"]
    /\ UNCHANGED <<snapshot, hover, config, completion_items, cursor>>
    /\ UNCHANGED index_vars
    /\ UNCHANGED docs_vars

TestAutocompleteResponse == CompletionRespond(1)

NextServe ==
    \/ InitGlobalInfo
    \/ IndexInstructions
    \/ IndexRegisters
    \/ IndexDirectives
    \/ RenderCompletes
    \/ TestAutocomplete
    \/ TestAutocompleteResponse

SpecServe == InitServe /\ [][NextServe]_vars

\* The completion request of test_autocomplete has its response.
Completed == requests # <<>> /\ requests[1].kind = "completion" /\ requests[1].stage = "done"

\* The items of the response.
ResponseItems == Unwrap(requests[1].resp).items

\* An item of the kind of the registers, made from the register index.
IsRegisterItem(item) ==
    /\ item.kind = "VARIABLE"
    /\ <<item.ref.coll, item.label>> \in DOMAIN names_to_registers
    /\ names_to_registers[<<item.ref.coll, item.label>>] = item.ref

\* An item of the kind of the directives, made from the directive index.
IsDirectiveItem(item) ==
    /\ item.kind = "OPERATOR"
    /\ <<item.ref.coll, item.label>> \in DOMAIN names_to_directives
    /\ names_to_directives[<<item.ref.coll, item.label>>] = item.ref
    /\ item.ref.coll \in Assemblers

\* An item of the kind of the instructions, made from the instruction index.
IsInstructionItem(item) ==
    /\ item.kind = "OPERATOR"
    /\ <<item.ref.coll, item.label>> \in DOMAIN names_to_instructions
    /\ names_to_instructions[<<item.ref.coll, item.label>>] = item.ref
    /\ item.ref.coll \in Archs

\* C22: a completion response triggered by the register sigil is not empty
\* and holds register items only, one triggered by the directive sigil is
\* not empty and holds directive items only, whatever the document and the
\* position.
C22_TriggeredCategoryPurity ==
    Completed /\ requests[1].trigger_kind = "TRIGGER_CHARACTER" =>
        /\ ResponseItems # {}
        /\ requests[1].trigger_character = Some("%") =>
            \A item \in ResponseItems : IsRegisterItem(item)
        /\ requests[1].trigger_character = Some(".") =>
            \A item \in ResponseItems : IsDirectiveItem(item)

\* The register sigil typed after a mnemonic, every assembler disabled: the
\* response has the register items though the store has no instruction.
C22_Witness ==
    /\ Completed
    /\ requests[1].trigger_character = Some("%")
    /\ requests[1].doc = <<<<"a", "a", " ", "%">>>>
    /\ requests[1].character = 4
    /\ completion_items.instr = {}
    /\ Cardinality(ResponseItems) > 2
    /\ \A item \in ResponseItems : item.kind = "VARIABLE"

\* The line of the completion request, and what is before the cursor on it.
RequestLine == LineContents(requests[1].doc, requests[1].line)

BeforeCursor == SubSeq(RequestLine, 1, ColumnIn(RequestLine, requests[1].character))

\* text is blanks, then what is in sigils, then alphanumeric characters.
BeginsToken(text, sigils) ==
    \E k \in 0..Len(text) :
        /\ \A j \in 1..k : text[j] = " "
        /\ \E s \in 0..1 :
            /\ k + s <= Len(text)
            /\ s = 1 <=> sigils # {}
            /\ s = 1 => text[k + 1] \in sigils
            /\ \A j \in (k + s + 1)..Len(text) : text[j] \in Alphanumerics

\* The cursor is in or right after the mnemonic of the line, or where one
\* would begin.
AtMnemonic == BeginsToken(BeforeCursor, {})

\* The cursor is in or right after the name of a directive, or right after
\* its sigil.
AtDirective == BeginsToken(BeforeCursor, {"."})

\* The cursor is in or right after an operand: a mnemonic and a blank are
\* before it, and the token in progress follows a blank, the register
\* sigil or an opening parenthesis.
AtOperand ==
    \E m \in 1..Len(BeforeCursor), t \in 1..Len(BeforeCursor) :
        /\ m < t
        /\ BeforeCursor[m] = " "
        /\ m > 1 /\ BeforeCursor[m - 1] \in Alphanumerics
        /\ BeginsToken(SubSeq(BeforeCursor, 1, m - 1), {})
        /\ BeforeCursor[t] \in {"%", "("} \/ (t = m + 1 /\ BeforeCursor[t] \in Alphanumerics)
        /\ \A j \in (t + 1)..Len(BeforeCursor) : BeforeCursor[j] \in Alphanumerics

MnemonicBegun ==
    /\ Completed
    /\ requests[1].trigger_kind = "INVOKED"
    /\ AtMnemonic /\ ~AtOperand
    /\ BeforeCursor = <<"a">>
    /\ \E item \in ResponseItems : IsInstructionItem(item)

(***************************************************************************)
(* The target filter on the collections ingestion can produce.  One        *)
(* collection is deserialized, with instructions of no form, forms of no   *)
(* name, and forms of GAS, of Go, of both or of z80; init_global_info      *)
(* filters it under a configuration, and the filter is then applied to     *)
(* what it left.                                                           *)
(***************************************************************************)
\* <InstructionForm> without gas-name, go-name or z80name.
UnnamedForm ==
    [gas_name |-> None, go_name |-> None, z80_name |-> None,
     cancelling_inputs |-> None, encodings |-> <<>>]

\* The forms of an instruction of a document of this architecture.
FilterForms(arch_name) ==
    IF arch_name = "z80"
    THEN {Z80Form(<<"a", "a">>, <<>>), UnnamedForm}
    ELSE {GasForm(<<"a", "a">>), GoForm(<<"A", "A">>),
          GasGoForm(<<"a", "a">>, <<"A", "A">>), UnnamedForm}

\* Instruction A alone or with instruction aA, each with MaxForms forms at
\* most.
FilterElems(arch_name) ==
    LET fss == SeqsUpTo(FilterForms(arch_name), MaxForms)
    IN  {<<[name |-> <<"A">>, forms |-> fs]>> : fs \in fss}
        \cup {<<[name |-> <<"A">>, forms |-> fs], [name |-> <<"a", "A">>, forms |-> gs]>> :
                fs \in fss, gs \in fss}

\* bincode::deserialize::<Vec<Instruction>>: the collection of one
\* architecture as ingestion left it, before init_global_info filters it.
InitFilter ==
    /\ config \in Configs
    /\ \E arch_name \in {"x86", "z80"} :
        \E elems \in FilterElems(arch_name) :
            \E v \in ParsedInstructions(arch_name, elems) :
                result = [tag |-> "Ok", arch |-> ArchFromStr(arch_name), value |-> v]
    /\ instructions = NoInstructions
    /\ registers = NoRegisters
    /\ directives = NoDirectives
    /\ names_to_instructions = EmptyMap
    /\ names_to_registers = EmptyMap
    /\ names_to_directives = EmptyMap
    /\ pc = "deserialized"
    /\ document = NoDocument
    /\ cache_refresh = FALSE
    /\ cache_dir = FALSE
    /\ cache_env = NoCacheEnv
    /\ cache_file = None
    /\ web = None
    /\ fetches = 0
    /\ ingestions = 0
    /\ gdb = NoCall
    /\ xml_pass = EmptyMap
    /\ snapshot = None
    /\ hover = NoHover
    /\ completion_items = NoCompletionItems
    /\ cursor = NoCursor
    /\ requests = <<>>

\* .into_iter().map(..).filter(..).collect() on the deserialized collection.
FilterTargets ==
    /\ pc = "deserialized"
    /\ instructions' = [instructions EXCEPT
                          ![Unwrap(result.arch)] = FilterCollection(result.value, config)]
    /\ pc' = "filtered"
    /\ UNCHANGED <<registers, directives, names_to_instructions, names_to_registers,
                   names_to_directives>>
    /\ UNCHANGED docs_vars
    /\ UNCHANGED test_vars

\* The same chain on the collection it left, under the same configuration.
FilterTargetsAgain ==
    /\ pc = "filtered"
    /\ instructions' = [a \in Archs |-> FilterCollection(instructions[a], config)]
    /\ pc' = "refiltered"
    /\ UNCHANGED <<registers, directives, names_to_instructions, names_to_registers,
                   names_to_directives>>
    /\ UNCHANGED docs_vars
    /\ UNCHANGED test_vars

NextFilter == FilterTargets \/ FilterTargetsAgain

SpecFilter == InitFilter /\ [][NextFilter]_vars

\* The collection deserialized and the collection the filter left of it.
Deserialized == result.value

Filtered == instructions[Unwrap(result.arch)]

\* The instruction is in the collection with these forms among its own.
KeptWith(instruction, forms, collection) ==
    \E j \in DOMAIN collection :
        /\ collection[j].name = instruction.name
        /\ collection[j].alt_names = instruction.alt_names
        /\ collection[j].arch = instruction.arch
        /\ \A k \in DOMAIN forms : \E m \in DOMAIN collection[j].forms :
               collection[j].forms[m] = forms[k]

C27_FilterIdempotent == [][FilterTargetsAgain => instructions' = instructions]_vars

\* The filter applied twice under a configuration with a disabled
\* assembler, the first application having dropped an instruction and
\* left another.
C27_Witness ==
    /\ pc = "refiltered"
    /\ config # DefaultConfig
    /\ Len(Deserialized) = 2
    /\ Len(Filtered) = 1
    /\ \E i \in DOMAIN Deserialized :
        /\ Deserialized[i].name = Filtered[1].name
        /\ Len(Filtered[1].forms) < Len(Deserialized[i].forms)

(***************************************************************************)
(* The order of initialization: init_global_info deserializes and filters, *)
(* init_test_store builds the indices from what the filter left and then   *)
(* renders the completion items from the indices.                          *)
(***************************************************************************)
\* The form carries a name, and none of a disabled assembler.
FormOfEnabledAssembler(form) ==
    /\ HasName(form)
    /\ ~config.gas => form.gas_name = None
    /\ ~config.go => form.go_name = None
    /\ ~config.z80 => form.z80_name = None

\* The instruction has a form, and forms of enabled assemblers only.
Targeted(instruction) ==
    /\ instruction.forms # <<>>
    /\ \A k \in DOMAIN instruction.forms : FormOfEnabledAssembler(instruction.forms[k])

\* The instruction a key of the index, or a completion item, refers to.
InstructionOf(ref) == instructions[ref.coll][ref.idx]

IndicesBuilt == pc \in {"done", "ready"}

\* C28: the collections are filtered from deserialization on, the
\* instruction index is built only from filtered collections and the
\* completion items are there only once the three indices are built; so
\* every instruction in a collection, every instruction an index key is
\* bound to and every instruction a completion item documents has a form
\* and has no form without a name or with the name of a disabled assembler.
C28_InitOrder ==
    /\ pc = "info" =>
        instructions = NoInstructions /\ names_to_instructions = EmptyMap
    /\ ~IndicesBuilt => completion_items = NoCompletionItems
    /\ \A a \in Archs : \A i \in DOMAIN instructions[a] : Targeted(instructions[a][i])
    /\ \A k \in DOMAIN names_to_instructions : Targeted(InstructionOf(names_to_instructions[k]))
    /\ \A item \in completion_items.instr : Targeted(InstructionOf(item.ref))
    /\ pc = "ready" =>
        {item.ref : item \in completion_items.instr}
            = {names_to_instructions[k] : k \in DOMAIN names_to_instructions}

\* The Go names disabled, the items rendered: the GAS name of instruction A
\* is a label, the names of the instruction with Go forms only and of the
\* instruction without forms are not.
C28_Witness ==
    /\ pc = "ready"
    /\ config = [gas |-> TRUE, go |-> FALSE, z80 |-> TRUE]
    /\ \E item \in completion_items.instr : item.label = <<"a", "a">>
    /\ \A item \in completion_items.instr :
        item.label \notin {<<"a", "A">>, <<"A", "A">>, <<"A", "a">>}

(***************************************************************************)
(* Requests on an empty document or at a position outside the document.    *)
(***************************************************************************)
\* The document has no character.
EmptyDocument == \A i \in DOMAIN cursor.source : cursor.source[i] = <<>>

\* The position is on no line of the document, or past the end of its line.
OutOfBounds ==
    \/ cursor.line >= Len(cursor.source)
    \/ cursor.character > Len(CursorLine)

AllLookups == <<"instructions", "registers", "directives", "file_directives", "demangle">>

EmptyDocumentServed ==
    /\ HoverDone
    /\ cursor.source = <<>>
    /\ hover.resp = None

(***************************************************************************)
(* Requests in flight together.  The store, the indices and the completion *)
(* items are built once; get_hover_resp and get_comp_resp borrow them      *)
(* immutably, with the document and the position of the request.  A hover  *)
(* request resolves its words and makes its lookups one after the other,   *)
(* a completion request returns in one step; the steps of the requests in  *)
(* flight interleave in any order.                                         *)
(***************************************************************************)
\* init_global_info under the default configuration, init_test_store.
InitConcurrent ==
    /\ config = DefaultConfig
    /\ \E x \in DeserializedInstructions("x86"), y \in DeserializedInstructions("x86-64"),
          z \in DeserializedInstructions("z80") :
        instructions = [a \in Archs |->
                          FilterCollection(
                            CASE a = "X86" -> x [] a = "X86_64" -> y [] a = "Z80" -> z,
                            config)]
    /\ \E x \in DeserializedRegisters("x86"), y \in DeserializedRegisters("x86-64"),
          z \in DeserializedRegisters("z80") :
        registers = [a \in Archs |->
                          CASE a = "X86" -> x [] a = "X86_64" -> y [] a = "Z80" -> z]
    /\ \E d \in DeserializedDirectives : directives = [NoDirectives EXCEPT !["Gas"] = d]
    /\ names_to_instructions = InStoreOrder
    /\ names_to_registers =
        populate_name_to_register_map("Z80", registers["Z80"],
            populate_name_to_register_map("X86_64", registers["X86_64"],
                populate_name_to_register_map("X86", registers["X86"], EmptyMap)))
    /\ names_to_directives =
        populate_name_to_directive_map("Gas", directives["Gas"], EmptyMap)
    /\ completion_items =
        render_completion_items(names_to_instructions, names_to_registers,
                                names_to_directives)
    /\ pc = "ready"
    /\ DocsIdle
    /\ snapshot = None
    /\ hover = NoHover
    /\ cursor = NoCursor
    /\ requests = <<>>

\* The document snapshots of the requests: an instruction with a register
\* operand, a directive, a mangled symbol.
InstructionDoc == <<<<"a", "a", " ", "%", "A", "2">>>>

DirectiveDoc == <<<<" ", ".", "a">>>>

SymbolDoc == <<<<"_", "a">>>>

\* The requests an editor sends: hover on the instruction, on the
\* directive, on the symbol and on a line the document does not have;
\* completion triggered by the register sigil and invoked at the mnemonic.
ConcurrentRequests ==
    {NewRequest("hover", InstructionDoc, 0, 1),
     NewRequest("hover", DirectiveDoc, 0, 2),
     NewRequest("hover", SymbolDoc, 0, 1),
     NewRequest("hover", InstructionDoc, 1, 0),
     [NewRequest("completion", InstructionDoc, 0, 4)
        EXCEPT !.trigger_kind = "TRIGGER_CHARACTER", !.trigger_character = Some("%")],
     NewRequest("completion", InstructionDoc, 0, 1)}

\* A request arrives with its document snapshot.
ReceiveRequest ==
    /\ pc = "ready"
    /\ Len(requests) < MaxRequests
    /\ \E req \in ConcurrentRequests : requests' = Append(requests, req)
    /\ UNCHANGED <<snapshot, hover, config, completion_items, cursor>>
    /\ UNCHANGED index_vars
    /\ UNCHANGED docs_vars

\* The lookup a hover request is at.
LookupSections(req) ==
    CASE req.stage = "instructions" ->
            SectionsFrom("instructions", names_to_instructions, instructions,
                         HoverArchs, req.word)
      [] req.stage = "registers" ->
            SectionsFrom("registers", names_to_registers, registers, HoverArchs, req.word)
      [] req.stage = "directives" ->
            SectionsFrom("directives", names_to_directives, directives,
                         HoverAssemblers, req.word)
      [] OTHER ->
            SectionsFrom("directives", names_to_directives, directives,
                         HoverAssemblers, req.file_word)

LookupAfter(stage) ==
    CASE stage = "instructions" -> "registers"
      [] stage = "registers" -> "directives"
      [] stage = "directives" -> "file_directives"
      [] OTHER -> "demangle"

\* One step of a hover request: its words resolved, or one lookup of
\* get_hover_resp, or the fallback.
HoverAdvance(req) ==
    IF req.stage = "called"
    THEN LET call == HoverCall(req.doc, req.line, req.character)
         IN  [req EXCEPT !.word = call.word, !.file_word = call.file_word,
                         !.demangled = call.demangled, !.stage = "instructions"]
    ELSE IF req.stage = "demangle"
    THEN [req EXCEPT !.lookups = Append(@, "demangle"),
                     !.resp = IF IsSome(req.demangled)
                              THEN Some([kind |-> "plain", value |-> Unwrap(req.demangled)])
                              ELSE None,
                     !.stage = "done"]
    ELSE LET sections == LookupSections(req)
         IN  IF sections # <<>>
             THEN [req EXCEPT !.lookups = Append(@, req.stage),
                              !.resp = Some([kind |-> "markup",
                                             value |-> HoverText(sections)]),
                              !.stage = "done"]
             ELSE [req EXCEPT !.lookups = Append(@, req.stage),
                              !.stage = LookupAfter(req.stage)]

\* A step of hover request r, were the words under the cursor kept in one
\* place for all the requests: the request that resolves its words leaves
\* them there, and the lookups read them from there.
HoverStepSharedWords(r) ==
    /\ r \in DOMAIN requests
    /\ requests[r].kind = "hover"
    /\ requests[r].stage # "done"
    /\ LET req == requests[r]
           shared == IF req.stage = "called"
                     THEN HoverCall(req.doc, req.line, req.character)
                     ELSE hover
       IN  /\ hover' = shared
           /\ requests' = [requests EXCEPT
                              ![r] = HoverAdvance([req EXCEPT
                                                      !.word = shared.word,
                                                      !.file_word = shared.file_word,
                                                      !.demangled = shared.demangled])]
    /\ UNCHANGED <<snapshot, config, completion_items, cursor>>
    /\ UNCHANGED index_vars
    /\ UNCHANGED docs_vars

\* A step of hover request r, on its own words and the shared store.
HoverStep(r) ==
    /\ r \in DOMAIN requests
    /\ requests[r].kind = "hover"
    /\ requests[r].stage # "done"
    /\ requests' = [requests EXCEPT ![r] = HoverAdvance(@)]
    /\ UNCHANGED <<snapshot, hover, config, completion_items, cursor>>
    /\ UNCHANGED index_vars
    /\ UNCHANGED docs_vars

HoverSteps == \E r \in 1..MaxRequests : HoverStep(r)

CompletionResponds == \E r \in 1..MaxRequests : CompletionRespond(r)

NextConcurrent == ReceiveRequest \/ HoverSteps \/ CompletionResponds

SpecConcurrent == InitConcurrent /\ [][NextConcurrent]_vars

\* What get_hover_resp returns for the document and the position of the
\* request when no other request is in flight: the document of the first
\* lookup that finds sections, or the demangled word, or nothing.
HoverAlone(req) ==
    LET word == get_word_from_pos_params(req.doc, req.line, req.character, <<>>)
        file_word == get_word_from_pos_params(req.doc, req.line, req.character, <<".">>)
        found == <<SectionsFrom("instructions", names_to_instructions, instructions,
                                HoverArchs, word),
                   SectionsFrom("registers", names_to_registers, registers,
                                HoverArchs, word),
                   SectionsFrom("directives", names_to_directives, directives,
                                HoverAssemblers, word),
                   SectionsFrom("directives", names_to_directives, directives,
                                HoverAssemblers, file_word)>>
        hits == {i \in DOMAIN found : found[i] # <<>>}
    IN  IF hits # {}
        THEN Some([kind |-> "markup",
                   value |-> HoverText(found[CHOOSE i \in hits : \A j \in hits : i <= j])])
        ELSE IF IsSome(Demangle(word))
        THEN Some([kind |-> "plain", value |-> Unwrap(Demangle(word))])
        ELSE None

\* What the request returns when it runs alone on its document snapshot.
ResponseAlone(req) ==
    IF req.kind = "hover" THEN HoverAlone(req)
    ELSE Some(get_comp_resp(req.doc, req, completion_items.instr,
                            completion_items.directive, completion_items.reg))

\* The state the requests share.
shared_vars ==
    <<instructions, registers, directives, names_to_instructions, names_to_registers,
      names_to_directives, completion_items, config>>

CompletionDuringHover ==
    \E r, q \in DOMAIN requests :
        /\ requests[r].kind = "completion"
        /\ requests[r].stage = "done"
        /\ requests[q].kind = "hover"
        /\ requests[q].stage \notin {"called", "done"}

(***************************************************************************)
(* get_cache_dir.  A path is the sequence of its components.  The          *)
(* environment is the value of ASM_LSP_CACHE_DIR, the paths that are       *)
(* directories, the home directory home::home_dir finds, and whether       *)
(* fs::create_dir_all can create a directory that is missing.              *)
(***************************************************************************)
HomeDir == <<"/home">>

\* The directories ASM_LSP_CACHE_DIR names here: one may exist, the other
\* may be a directory or something else.
EnvDirs == {<<"/cache">>, <<"/file">>}

\* x86_cache_path.push(".cache"); x86_cache_path.push("asm-lsp")
DefaultCacheDir(home) == home \o <<".cache", "asm-lsp">>

\* The directory the documentation of get_cache_dir names: ~/.config/asm-lsp/
DocumentedCacheDir(home) == home \o <<".config", "asm-lsp">>

\* get_cache_dir: the path it returns or Err, and the directories there are
\* afterwards.
get_cache_dir(env) ==
    IF IsSome(env.var) /\ Unwrap(env.var) \in env.dirs
    THEN [tag |-> "Ok", path |-> Unwrap(env.var), dirs |-> env.dirs]
    ELSE IF env.home = None
    THEN [tag |-> "Err", path |-> <<>>, dirs |-> env.dirs]
    ELSE LET x86_cache_path == DefaultCacheDir(Unwrap(env.home))
         IN  IF x86_cache_path \in env.dirs \/ env.create_ok
             THEN [tag |-> "Ok", path |-> x86_cache_path,
                   dirs |-> env.dirs \cup {x86_cache_path}]
             ELSE [tag |-> "Err", path |-> <<>>, dirs |-> env.dirs]

\* The environments of a call.
CacheEnvs ==
    {[NoCacheEnv EXCEPT !.var = v, !.dirs = ds, !.home = h, !.create_ok = ok] :
        v \in {None} \cup {Some(d) : d \in EnvDirs},
        ds \in SUBSET (EnvDirs \cup {DefaultCacheDir(HomeDir), DocumentedCacheDir(HomeDir)}),
        h \in {None, Some(HomeDir)},
        ok \in BOOLEAN}

InitCacheDir ==
    /\ cache_env \in CacheEnvs
    /\ IndexIdle
    /\ document = NoDocument
    /\ cache_refresh = FALSE
    /\ cache_dir = FALSE
    /\ cache_file = None
    /\ web = None
    /\ fetches = 0
    /\ ingestions = 0
    /\ gdb = NoCall
    /\ xml_pass = EmptyMap
    /\ result = NoResult
    /\ TestIdle

\* match get_cache_dir() { Ok(cache_path) => Some(cache_path), Err(e) => None }
GetCacheDir ==
    /\ cache_env.ret = None
    /\ LET r == get_cache_dir(cache_env)
       IN  /\ cache_env' = [cache_env EXCEPT !.ret = Some([tag |-> r.tag, path |-> r.path]),
                                             !.dirs = r.dirs]
           /\ cache_dir' = (r.tag = "Ok")
    /\ UNCHANGED <<cache_refresh, cache_file, web, fetches, ingestions, gdb, xml_pass,
                   result, document>>
    /\ UNCHANGED index_vars
    /\ UNCHANGED test_vars

NextCacheDir == GetCacheDir

SpecCacheDir == InitCacheDir /\ [][NextCacheDir]_vars

CacheDirReturned == IsSome(cache_env.ret)

\* What get_cache_dir returned.
CacheDirRet == Unwrap(cache_env.ret)

\* ASM_LSP_CACHE_DIR is set and names a directory.  (A successful call
\* adds no directory in that case, so this reads the same before and after.)
EnvVarIsDir == IsSome(cache_env.var) /\ Unwrap(cache_env.var) \in cache_env.dirs

\* C31: get_cache_dir returns the path in ASM_LSP_CACHE_DIR when the
\* variable is set and names a directory; otherwise it returns
\* ~/.config/asm-lsp/; it returns Err only when there is no home directory.
C31_CacheDirResolution ==
    CacheDirReturned =>
        /\ EnvVarIsDir => CacheDirRet = [tag |-> "Ok", path |-> Unwrap(cache_env.var)]
        /\ (~EnvVarIsDir /\ IsSome(cache_env.home)) =>
                CacheDirRet = [tag |-> "Ok",
                               path |-> DocumentedCacheDir(Unwrap(cache_env.home))]
        /\ CacheDirRet.tag = "Err" => cache_env.home = None

\* What the code does: the path of the variable when it names a directory;
\* otherwise ~/.cache/asm-lsp, which is a directory afterwards, or Err when
\* there is no home directory or the directory cannot be created.
CacheDirAsCoded ==
    CacheDirReturned =>
        /\ EnvVarIsDir => CacheDirRet = [tag |-> "Ok", path |-> Unwrap(cache_env.var)]
        /\ ~EnvVarIsDir =>
            \/ /\ CacheDirRet.tag = "Err"
               /\ cache_env.home = None
                  \/ (~cache_env.create_ok
                      /\ DefaultCacheDir(Unwrap(cache_env.home)) \notin cache_env.dirs)
            \/ /\ IsSome(cache_env.home)
               /\ CacheDirRet = [tag |-> "Ok",
                                 path |-> DefaultCacheDir(Unwrap(cache_env.home))]
               /\ CacheDirRet.path \in cache_env.dirs
        /\ cache_dir = (CacheDirRet.tag = "Ok")

\* The variable unset, a home directory: ~/.cache/asm-lsp is returned.
DefaultCacheDirReturned ==
    /\ CacheDirReturned
    /\ cache_env.var = None
    /\ CacheDirRet = [tag |-> "Ok", path |-> DefaultCacheDir(HomeDir)]
    /\ DocumentedCacheDir(HomeDir) \notin cache_env.dirs

\* A home directory, and Err all the same: the directory cannot be created.
ErrWithHomeDir ==
    /\ CacheDirReturned
    /\ IsSome(cache_env.home)
    /\ CacheDirRet.tag = "Err"

(***************************************************************************)
(* SpecElements: one reference document, given element by element, is      *)
(* handed to its parser.  An element is written with a start and an end    *)
(* tag or as an empty-element tag; a form holds up to MaxItems Operand,    *)
(* ISA, Encoding and timing elements, and such elements also stand         *)
(* between the forms of an instruction.                                    *)
(***************************************************************************)
MaxItems == 2       \* the elements inside one form

\* An element without content.
XmlLeaf(tag, attrs, self_closing) ==
    [tag |-> tag, attrs |-> attrs, self_closing |-> self_closing]

RECURSIVE LeafEvents(_)
LeafEvents(leaves) ==
    IF leaves = <<>> THEN <<>>
    ELSE (IF Head(leaves).self_closing
          THEN <<Empty(Head(leaves).tag, Head(leaves).attrs)>>
          ELSE <<Start(Head(leaves).tag, Head(leaves).attrs), End(Head(leaves).tag)>>)
         \o LeafEvents(Tail(leaves))

\* The events of InstructionForm elements, each followed by the elements
\* that stand after it in the instruction.
RECURSIVE XmlFormEvents(_)
XmlFormEvents(forms) ==
    IF forms = <<>> THEN <<>>
    ELSE (IF Head(forms).self_closing
          THEN <<Empty("InstructionForm", Head(forms).attrs)>>
          ELSE <<Start("InstructionForm", Head(forms).attrs)>>
               \o LeafEvents(Head(forms).children)
               \o <<End("InstructionForm")>>)
         \o LeafEvents(Head(forms).after)
         \o XmlFormEvents(Tail(forms))

RECURSIVE XmlInstrEvents(_)
XmlInstrEvents(elems) ==
    IF elems = <<>> THEN <<>>
    ELSE (IF Head(elems).self_closing
          THEN <<Empty("Instruction", [name |-> Head(elems).name])>>
          ELSE <<Start("Instruction", [name |-> Head(elems).name])>>
               \o XmlFormEvents(Head(elems).forms)
               \o <<End("Instruction")>>)
         \o XmlInstrEvents(Tail(elems))

RECURSIVE XmlRegEvents(_)
XmlRegEvents(elems) ==
    IF elems = <<>> THEN <<>>
    ELSE (IF Head(elems).self_closing
          THEN <<Empty("Register", Head(elems).attrs)>>
          ELSE <<Start("Register", Head(elems).attrs)>>
               \o LeafEvents(Head(elems).flags)
               \o <<End("Register")>>)
         \o XmlRegEvents(Tail(elems))

RECURSIVE XmlDirEvents(_)
XmlDirEvents(elems) ==
    IF elems = <<>> THEN <<>>
    ELSE (IF Head(elems).self_closing
          THEN <<Empty("Directive", Head(elems).attrs)>>
          ELSE <<Start("Directive", Head(elems).attrs)>>
               \o LeafEvents(Head(elems).signatures)
               \o <<End("Directive")>>)
         \o XmlDirEvents(Tail(elems))

\* The document of these elements, with the events the reader gives for it.
ElementDoc(parser, arch_name, elems) ==
    [parser |-> parser, arch_name |-> arch_name, elems |-> elems,
     events |->
        CASE parser = "instructions" ->
                <<Start("InstructionSet", [name |-> arch_name])>>
                \o XmlInstrEvents(elems) \o <<End("InstructionSet")>>
          [] parser = "registers" ->
                <<Start("InstructionSet", [name |-> arch_name])>>
                \o XmlRegEvents(elems) \o <<End("InstructionSet")>>
          [] parser = "directives" ->
                <<Start("Assembler", [name |-> arch_name])>>
                \o XmlDirEvents(elems) \o <<End("Assembler")>>]

OperandAttrs(type, input, output, extended_size) ==
    [type |-> type, input |-> input, output |-> output, extended_size |-> extended_size]

\* The elements of a form: two operands, an ISA tag, an Encoding element
\* with an end tag and one written as an empty-element tag, and a timing.
FormLeaves ==
    {XmlLeaf("Operand", OperandAttrs(Some("r8"), Some("true"), None, None), TRUE),
     XmlLeaf("Operand", OperandAttrs(Some("imm8"), None, Some("false"), Some("1")), TRUE),
     XmlLeaf("ISA", [id |-> "MMX"], TRUE),
     XmlLeaf("Encoding", [byte |-> "1"], FALSE),
     XmlLeaf("Encoding", [byte |-> "2"], TRUE),
     XmlLeaf("TimingZ80", [value |-> "4"], TRUE)}

\* An InstructionForm element with a start and an end tag.
FormElem(z, children, after) ==
    [attrs |-> [gas_name |-> None, go_name |-> None, z80_name |-> Some(z),
                cancelling_inputs |-> None],
     self_closing |-> FALSE, children |-> children, after |-> after]

\* An InstructionForm element written as an empty-element tag.
EmptyFormElem(z) ==
    [attrs |-> [gas_name |-> None, go_name |-> None, z80_name |-> Some(z),
                cancelling_inputs |-> None],
     self_closing |-> TRUE, children |-> <<>>, after |-> <<>>]

InstrElem(n, self_closing, forms) ==
    [name |-> n, self_closing |-> self_closing, forms |-> forms]

\* One instruction with one form of up to MaxItems elements.
ContentDocs ==
    {ElementDoc("instructions", "z80",
                <<InstrElem(<<"a">>, FALSE, <<FormElem(<<"a">>, children, <<>>)>>)>>) :
        children \in SeqsUpTo(FormLeaves, MaxItems)}

\* One instruction with two forms of one element at most each, and one
\* element at most between them.
TwoFormDocs ==
    {ElementDoc("instructions", "z80",
                <<InstrElem(<<"a">>, FALSE,
                            <<FormElem(<<"a">>, c1, after), FormElem(<<"b">>, c2, <<>>)>>)>>) :
        c1 \in SeqsUpTo(FormLeaves, 1), after \in SeqsUpTo(FormLeaves, 1),
        c2 \in SeqsUpTo(FormLeaves, 1)}

\* Two instructions with one form at most each.
TwoInstrDocs ==
    {ElementDoc("instructions", "z80",
                <<InstrElem(<<"a">>, FALSE, f1), InstrElem(<<"b">>, FALSE, f2)>>) :
        f1 \in SeqsUpTo({FormElem(<<"a">>, c, <<>>) : c \in SeqsUpTo(FormLeaves, 1)}, 1),
        f2 \in SeqsUpTo({FormElem(<<"b">>, c, <<>>) : c \in SeqsUpTo(FormLeaves, 1)}, 1)}

TimingTags == {"TimingZ80", "TimingZ80M1", "TimingR800", "TimingR800Wait"}

\* The value each timing element carries when it stands once in a form.
TimingValue ==
    [TimingZ80 |-> "4", TimingZ80M1 |-> "5", TimingR800 |-> "7", TimingR800Wait |-> "11"]

\* The timing elements of a form: each of the four at most once, in any
\* order; or up to two elements, each with one of two numbers of cycles or
\* with a value that is none.
TimingLists ==
    {ts \in SeqsUpTo(TimingTags, 4) : \A i, j \in DOMAIN ts : ts[i] = ts[j] => i = j}

TimingDocs ==
    {ElementDoc("instructions", "z80",
                <<InstrElem(<<"a">>, FALSE,
                            <<FormElem(<<"a">>, children, <<>>)>>)>>) :
        children \in
            {[i \in DOMAIN ts |-> XmlLeaf(ts[i], [value |-> TimingValue[ts[i]]], TRUE)] :
                ts \in TimingLists}
            \cup SeqsUpTo({XmlLeaf(t, [value |-> v], TRUE) :
                            t \in TimingTags, v \in {"4", "5", "x"}}, 2)}

\* Up to two Instruction elements, each with a start and an end tag or
\* written as an empty-element tag, with one form at most, written either
\* way, with one Encoding element at most, written either way.
SelfClosingInstrElems ==
    {InstrElem(n, TRUE, <<>>) : n \in ShortNames}
    \cup {InstrElem(n, FALSE, fs) :
            n \in ShortNames,
            fs \in SeqsUpTo({EmptyFormElem(<<"a">>)}
                            \cup {FormElem(<<"a">>, c, <<>>) :
                                    c \in SeqsUpTo({XmlLeaf("Encoding", [byte |-> "1"], FALSE),
                                                    XmlLeaf("Encoding", [byte |-> "2"], TRUE)},
                                                   1)}, 1)}

RegElem(n, self_closing, flags) ==
    [name |-> n, self_closing |-> self_closing, flags |-> flags,
     attrs |-> [name |-> n, altname |-> None, type |-> None, width |-> None]]

\* Register elements written either way, with one Flag element at most,
\* written either way.
SelfClosingRegElems ==
    {RegElem(n, TRUE, <<>>) : n \in ShortNames}
    \cup {RegElem(n, FALSE, fs) :
            n \in ShortNames,
            fs \in SeqsUpTo({XmlLeaf("Flag", [bit |-> b, label |-> "CF"], sc) :
                                b \in {"1", "x"}, sc \in BOOLEAN}, 1)}

DirElem(n, self_closing, signatures) ==
    [name |-> n, self_closing |-> self_closing, signatures |-> signatures,
     attrs |-> [name |-> n, deprecated |-> None]]

\* Directive elements written either way, with one Signature element at
\* most, written either way.
SelfClosingDirElems ==
    {DirElem(n, TRUE, <<>>) : n \in ShortNames}
    \cup {DirElem(n, FALSE, ss) :
            n \in ShortNames,
            ss \in SeqsUpTo({XmlLeaf("Signature", [sig |-> g], sc) :
                                g \in {"s", "&lt;"}, sc \in BOOLEAN}, 1)}

SelfClosingDocs ==
    {ElementDoc("instructions", "z80", elems) : elems \in SeqsUpTo(SelfClosingInstrElems, 2)}
    \cup {ElementDoc("registers", "x86", elems) : elems \in SeqsUpTo(SelfClosingRegElems, 2)}
    \cup {ElementDoc("directives", "gas", elems) : elems \in SeqsUpTo(SelfClosingDirElems, 2)}

ElementDocs == ContentDocs \cup TwoFormDocs \cup TwoInstrDocs \cup TimingDocs \cup SelfClosingDocs

\* No cache directory, no cache file, the documentation server out of reach.
InitElements ==
    /\ IndexIdle
    /\ document \in ElementDocs
    /\ cache_refresh = FALSE
    /\ cache_dir = FALSE
    /\ cache_env = NoCacheEnv
    /\ cache_file = None
    /\ web = None
    /\ fetches = 0
    /\ ingestions = 0
    /\ gdb = NoCall
    /\ xml_pass = EmptyMap
    /\ result = NoResult
    /\ TestIdle

SpecElements == InitElements /\ [][NextParse]_vars

(***************************************************************************)
(* What a form and an instruction hold of their own elements.              *)
(***************************************************************************)
\* The loop reads an Encoding element at its start tag and an Operand, ISA
\* or timing element written as an empty-element tag.
ReadByLoop(leaf) ==
    IF leaf.tag = "Encoding" THEN ~leaf.self_closing ELSE leaf.self_closing

\* The elements of these with this tag; with as_read, those the loop reads.
LeavesOf(leaves, tags, as_read) ==
    SelectSeq(leaves, LAMBDA l : l.tag \in tags /\ (as_read => ReadByLoop(l)))

\* The timing table of these timing elements: each field from the last
\* element of its tag, a default where there is none.
TimingTableOf(timings) ==
    IF timings = <<>> THEN None
    ELSE Some([field \in {TimingField[t] : t \in TimingTags} |->
                LET own == SelectSeq(timings, LAMBDA l : TimingField[l.tag] = field)
                IN  IF own = <<>> THEN Z80TimingInfoDefault
                    ELSE own[Len(own)].attrs.value])

\* The form of an InstructionForm element, from the elements between its
\* start and its end tag.
FormOfChildren(f, as_read) ==
    LET operands == LeavesOf(f.children, {"Operand"}, as_read)
        isas == LeavesOf(f.children, {"ISA"}, as_read)
        encodings == LeavesOf(f.children, {"Encoding"}, as_read)
    IN  [gas_name |-> f.attrs.gas_name, go_name |-> f.attrs.go_name,
         z80_name |-> f.attrs.z80_name, cancelling_inputs |-> None,
         z80_opcode |-> IF encodings = <<>> THEN None
                        ELSE Some(OpcodeString([i \in DOMAIN encodings |->
                                                    encodings[i].attrs])),
         operands |-> [i \in DOMAIN operands |-> Unwrap(OperandOf(operands[i].attrs))],
         isa |-> IF isas = <<>> THEN None ELSE Some(isas[Len(isas)].attrs.id),
         z80_timing |-> TimingTableOf(LeavesOf(f.children, TimingTags, as_read))]

\* The forms of an Instruction element: of its InstructionForm elements
\* with an end tag, in document order.
FormsOfChildren(e, as_read) ==
    LET closed == SelectSeq(e.forms, LAMBDA f : ~f.self_closing)
    IN  [i \in DOMAIN closed |-> FormOfChildren(closed[i], as_read)]

\* The Instruction elements with an end tag that no later such element
\* repeats the name of.
Committed(elems) ==
    {i \in DOMAIN elems :
        /\ ~elems[i].self_closing
        /\ \A j \in DOMAIN elems :
            (j > i /\ elems[j].name = elems[i].name) => elems[j].self_closing}

\* populate_instructions has returned the instructions of a document given
\* element by element.
ElementsParsed ==
    /\ "events" \in DOMAIN document
    /\ document.parser = "instructions"
    /\ result.tag = "Ok"

\* The returned instructions hold these forms.
FormsAre(as_read) ==
    ElementsParsed =>
        /\ Len(result.value) = Cardinality(Committed(document.elems))
        /\ \A k \in Committed(document.elems) :
            \E i \in DOMAIN result.value :
                /\ result.value[i].name = document.elems[k].name
                /\ result.value[i].forms = FormsOfChildren(document.elems[k], as_read)

\* C32: each committed form holds exactly the operands (in document
\* order), the ISA tag, the opcode bytes, the timing values and the name
\* attributes that stand between its own start and end tag, and each
\* committed instruction exactly the forms closed between its own tags;
\* nothing of an earlier form or instruction carries over.
C32_NoScratchLeak == FormsAre(FALSE)

\* What the loop does: the same of the Encoding elements with an end tag
\* and of the Operand, ISA and timing elements written as empty-element
\* tags; an element between two forms, or of an earlier form or
\* instruction, leaves nothing in a later one.
OwnContentAsRead == FormsAre(TRUE)

\* Two forms were committed, the first with an operand and an element after
\* its end tag, the second with none of its own.
SecondFormEmpty ==
    /\ ElementsParsed
    /\ Len(document.elems) = 1
    /\ Len(document.elems[1].forms) = 2
    /\ \E l \in DOMAIN document.elems[1].forms[1].children :
        document.elems[1].forms[1].children[l].tag = "Operand"
    /\ document.elems[1].forms[1].after # <<>>
    /\ document.elems[1].forms[2].children = <<>>
    /\ Len(result.value[1].forms) = 2
    /\ result.value[1].forms[1].operands # <<>>
    /\ result.value[1].forms[2] = [InstructionFormDefault EXCEPT !.z80_name = Some(<<"b">>)]

\* A form with an Encoding element written as an empty-element tag was
\* committed without an opcode.
EmptyEncodingDropped ==
    /\ ElementsParsed
    /\ Len(document.elems) = 1
    /\ Len(document.elems[1].forms) = 1
    /\ document.elems[1].forms[1].children = <<XmlLeaf("Encoding", [byte |-> "2"], TRUE)>>
    /\ result.value[1].forms[1].z80_opcode = None

(***************************************************************************)
(* The timing table of a z80 form.                                         *)
(***************************************************************************)
\* populate_instructions has returned the one form of a document whose
\* form holds timing elements only.
TimingsParsed ==
    /\ ElementsParsed
    /\ Len(document.elems) = 1
    /\ ~document.elems[1].self_closing
    /\ Len(document.elems[1].forms) = 1
    /\ ~document.elems[1].forms[1].self_closing
    /\ \A l \in DOMAIN document.elems[1].forms[1].children :
        document.elems[1].forms[1].children[l].tag \in TimingTags

\* The positions of the timing elements with this tag among these.
TimingsAt(children, tag) == {l \in DOMAIN children : children[l].tag = tag}

\* C33: each timing element sets its own field of the table of the form
\* and leaves the other three as they were (a field holds the value of the
\* last element of its tag, and the default when the form has none); the
\* first timing element creates the table; and with the four elements once
\* each, the table is the same in every order of them.
C33_TimingFrame ==
    TimingsParsed =>
        LET children == document.elems[1].forms[1].children
            table == result.value[1].forms[1].z80_timing
        IN  /\ children = <<>> => table = None
            /\ children # <<>> =>
                /\ IsSome(table)
                /\ \A tag \in TimingTags :
                    Unwrap(table)[TimingField[tag]] =
                        IF TimingsAt(children, tag) = {} THEN Z80TimingInfoDefault
                        ELSE children[CHOOSE l \in TimingsAt(children, tag) :
                                        \A m \in TimingsAt(children, tag) : m <= l].attrs.value
            /\ (\A tag \in TimingTags : Cardinality(TimingsAt(children, tag)) = 1
                    /\ \A l \in TimingsAt(children, tag) :
                        children[l].attrs.value = TimingValue[tag]) =>
                table = Some([z80 |-> "4", z80_plus_m1 |-> "5",
                              r800 |-> "7", r800_plus_wait |-> "11"])

\* The four timing elements were read with TimingR800Wait first and
\* TimingZ80 last, and the table holds the four values.
C33_Witness ==
    /\ TimingsParsed
    /\ Len(document.elems[1].forms[1].children) = 4
    /\ document.elems[1].forms[1].children[1].tag = "TimingR800Wait"
    /\ document.elems[1].forms[1].children[4].tag = "TimingZ80"
    /\ result.value[1].forms[1].z80_timing =
        Some([z80 |-> "4", z80_plus_m1 |-> "5", r800 |-> "7", r800_plus_wait |-> "11"])

\* One timing element was read: the table holds its value and three defaults.
FirstTimingCreatesTable ==
    /\ TimingsParsed
    /\ document.elems[1].forms[1].children = <<XmlLeaf("TimingR800", [value |-> "7"], TRUE)>>
    /\ result.value[1].forms[1].z80_timing =
        Some([Z80TimingDefault EXCEPT !.r800 = "7"])

(***************************************************************************)
(* SpecVector: populate_name_to_instruction_map on any vector of up to     *)
(* MaxEntries instructions of one architecture, into an empty map, and     *)
(* once more with the same arguments.  The records need not come from one  *)
(* document: two of them may have the same name.                           *)
(***************************************************************************)
\* An instruction as populate_instructions builds it, with these forms.
InstructionNamed(a, n, forms) ==
    [InstructionDefault EXCEPT
        !.arch = Some(a),
        !.alt_names = <<to_uppercase(n), to_lowercase(n)>>,
        !.name = n,
        !.forms = forms]

\* The forms of an instruction of a vector: none, or one with a gas-name.
VectorForms ==
    SeqsUpTo({[InstructionFormDefault EXCEPT !.gas_name = Some(g)] :
                g \in {<<"a", "a">>, <<"A">>}}, 1)

Vectors(a) ==
    SeqsUpTo({InstructionNamed(a, n, forms) : n \in ShortNames, forms \in VectorForms},
             MaxEntries)

InitVector ==
    /\ \E a \in Archs : \E v \in Vectors(a) :
        instructions = [b \in Archs |-> IF b = a THEN v ELSE <<>>]
    /\ registers = NoRegisters
    /\ directives = NoDirectives
    /\ names_to_instructions = EmptyMap
    /\ names_to_registers = EmptyMap
    /\ names_to_directives = EmptyMap
    /\ pc = <<>>
    /\ DocsIdle
    /\ TestIdle

\* populate_name_to_instruction_map(a, &instructions, &mut map) on the
\* vector of the store.
PopulateVector ==
    /\ pc = <<>>
    /\ \E a \in Archs :
        /\ \A b \in Archs \ {a} : instructions[b] = <<>>
        /\ names_to_instructions' =
            populate_name_to_instruction_map(a, instructions[a], names_to_instructions)
        /\ pc' = <<a>>
    /\ UNCHANGED <<instructions, registers, directives, names_to_registers,
                   names_to_directives>>
    /\ UNCHANGED docs_vars
    /\ UNCHANGED test_vars

\* The same call once more.
PopulateVectorAgain ==
    /\ Len(pc) = 1
    /\ names_to_instructions' =
        populate_name_to_instruction_map(pc[1], instructions[pc[1]], names_to_instructions)
    /\ pc' = <<pc[1], pc[1]>>
    /\ UNCHANGED <<instructions, registers, directives, names_to_registers,
                   names_to_directives>>
    /\ UNCHANGED docs_vars
    /\ UNCHANGED test_vars

NextVector == PopulateVector \/ PopulateVectorAgain

SpecVector == InitVector /\ [][NextVector]_vars

\* The positions of the instructions of the vector with this name among
\* their primary names, and among their associated names.
PrimaryOf(v, n) == {i \in DOMAIN v : n \in Range(get_primary_names(v[i]))}

AssociatedOf(v, n) == {i \in DOMAIN v : n \in Range(get_associated_names(v[i]))}

\* C34: after populate_name_to_instruction_map(arch, instructions, map),
\* every key (arch, n) is bound to a record of the given vector that has n
\* among its primary or associated names, and every primary or associated
\* name of every instruction of the vector is a key.
C34_IndexSoundComplete ==
    pc # <<>> =>
        LET a == pc[1]
            v == instructions[a]
        IN  /\ \A key \in DOMAIN names_to_instructions :
                /\ key[1] = a
                /\ names_to_instructions[key].coll = a
                /\ names_to_instructions[key].idx
                    \in PrimaryOf(v, key[2]) \cup AssociatedOf(v, key[2])
            /\ \A i \in DOMAIN v :
                \A n \in Range(get_primary_names(v[i]))
                         \cup Range(get_associated_names(v[i])) :
                    <<a, n>> \in DOMAIN names_to_instructions

\* A vector of two instructions with a form each was indexed: the names
\* of the forms are keys.
C34_Witness ==
    /\ Len(pc) = 1
    /\ Len(instructions[pc[1]]) = 2
    /\ instructions[pc[1]][1].name = <<"a">>
    /\ instructions[pc[1]][2].name = <<"A">>
    /\ instructions[pc[1]][1].forms # <<>>
    /\ <<pc[1], <<"a", "a">>>> \in DOMAIN names_to_instructions
    /\ names_to_instructions[<<pc[1], <<"a">>>>] = Ref(pc[1], 1)
    /\ names_to_instructions[<<pc[1], <<"A">>>>] = Ref(pc[1], 2)

\* C35: an associated name of several instructions of the vector that is a
\* primary name of none is bound to the earliest of them, a primary name
\* of several to the latest of them; and a second call with the same
\* arguments leaves the map as it is.
C35_AliasTieBreak ==
    /\ [](pc # <<>> =>
            LET a == pc[1]
                v == instructions[a]
            IN  \A key \in DOMAIN names_to_instructions :
                    /\ (Cardinality(AssociatedOf(v, key[2])) > 1 /\ PrimaryOf(v, key[2]) = {}) =>
                        \A i \in AssociatedOf(v, key[2]) :
                            names_to_instructions[key].idx <= i
                    /\ Cardinality(PrimaryOf(v, key[2])) > 1 =>
                        \A i \in PrimaryOf(v, key[2]) :
                            names_to_instructions[key].idx >= i)
    /\ [][PopulateVectorAgain => names_to_instructions' = names_to_instructions]_vars

\* Two instructions named "a" were indexed twice: the name is bound to the
\* second, the upper-case variant, a name of both and the primary name of
\* none, to the first.
C35_Witness ==
    /\ Len(pc) = 2
    /\ Len(instructions[pc[1]]) = 2
    /\ instructions[pc[1]][1].name = <<"a">>
    /\ instructions[pc[1]][2].name = <<"a">>
    /\ names_to_instructions[<<pc[1], <<"a">>>>] = Ref(pc[1], 2)
    /\ names_to_instructions[<<pc[1], <<"A">>>>] = Ref(pc[1], 1)

(***************************************************************************)
(* SpecCache: get_docs_body, as populate_instructions calls it for an x86  *)
(* document, up to MaxIngestions times in a process run and over several   *)
(* runs, with or without --cache-refresh.  The home directory exists or    *)
(* not, the cache file can be created and written or not, and a request,   *)
(* a read and a removal succeed or fail call by call.                      *)
(***************************************************************************)
CacheFileEnvs ==
    {[NoCacheEnv EXCEPT !.home = h, !.wr = w] :
        h \in {None, Some(HomeDir)}, w \in WriteOutcomes}

InitCache ==
    /\ IndexIdle
    /\ document = NoDocument
    /\ cache_refresh \in BOOLEAN
    /\ cache_dir = FALSE
    /\ cache_env \in CacheFileEnvs
    /\ cache_file = None
    /\ web \in Bodies
    /\ fetches = 0
    /\ ingestions = 0
    /\ gdb = NoCall
    /\ xml_pass = EmptyMap
    /\ result = NoResult
    /\ TestIdle

\* One get_docs_body call: get_cache_dir, then the request or the read.
GetDocsBody ==
    /\ pc = "ingestion"
    /\ ingestions < MaxIngestions
    /\ LET r == get_cache_dir(cache_env)
       IN  \E env \in {e \in Envs : e.wr = cache_env.wr} :
            LET out == get_docs_body(cache_refresh, r.tag = "Ok", cache_file, Some(web), env)
            IN  /\ cache_env' = [cache_env EXCEPT
                                    !.ret = Some([tag |-> r.tag, path |-> r.path]),
                                    !.dirs = r.dirs]
                /\ cache_dir' = (r.tag = "Ok")
                /\ gdb' = out.call
                /\ cache_file' = out.file
                /\ fetches' = IF out.call.fetched THEN fetches + 1 ELSE fetches
    /\ ingestions' = ingestions + 1
    /\ UNCHANGED <<cache_refresh, web, xml_pass, result, document>>
    /\ UNCHANGED index_vars
    /\ UNCHANGED test_vars

NextCache == GetDocsBody \/ NewProcess

SpecCache == InitCache /\ [][NextCache]_vars

\* C36: when the request fails, get_docs_body returns no body and leaves
\* the cache file as it was: not created, not modified, not deleted; with
\* --cache-refresh and a valid cache file it does not return the cached
\* body.
C36_FetchFailureLeavesCache ==
    [][(GetDocsBody /\ gdb'.fetched /\ ~gdb'.fetch_ok) =>
            /\ gdb'.ret = None
            /\ cache_file' = cache_file]_vars

\* With --cache-refresh and a valid cache file the request failed: no body
\* was returned and the file is as it was.
C36_Witness ==
    /\ gdb.called
    /\ gdb.refresh
    /\ IsSome(gdb.cached)
    /\ ~IsInvalid(Unwrap(gdb.cached))
    /\ gdb.fetched
    /\ ~gdb.fetch_ok
    /\ gdb.ret = None
    /\ cache_file = gdb.cached

\* The call fetched a body that is valid, the cache path resolved and the
\* file could be created and written.
FetchedAndWritten ==
    /\ GetDocsBody
    /\ gdb'.fetched
    /\ gdb'.fetch_ok
    /\ IsSome(gdb'.ret)
    /\ cache_dir'
    /\ cache_env.wr = "ok"

\* A call without --cache-refresh on a cache file that holds a valid body.
CallOnValidCache ==
    /\ GetDocsBody
    /\ ~cache_refresh
    /\ cache_dir'
    /\ IsSome(cache_file)
    /\ ~IsInvalid(Unwrap(cache_file))

CacheReadFailed ==
    /\ gdb.called
    /\ gdb.read
    /\ ~gdb.fetched
    /\ IsSome(gdb.cached)
    /\ ~IsInvalid(Unwrap(gdb.cached))
    /\ gdb.ret = None

(***************************************************************************)
(* Elements written as empty-element tags.                                 *)
(***************************************************************************)
\* A parser has returned the records of a document given element by element.
GivenElementsParsed ==
    /\ "events" \in DOMAIN document
    /\ result.tag = "Ok"

\* These elements, without those written as empty-element tags.
WithEndTags(leaves) == SelectSeq(leaves, LAMBDA l : ~l.self_closing)

\* C38: a record is returned for the Instruction, Register and Directive
\* elements with a start and an end tag only; it holds a form or a flag for
\* its InstructionForm or Flag elements with an end tag only, and an opcode
\* byte or a signature for its Encoding or Signature elements with an end
\* tag only.  An element written as an empty-element tag adds nothing.
C38_OnlyClosedElementsCommitted ==
    GivenElementsParsed =>
        /\ Len(result.value) = Cardinality(Committed(document.elems))
        /\ \A k \in Committed(document.elems) :
            \E i \in DOMAIN result.value :
                LET r == result.value[i]
                    e == document.elems[k]
                IN  /\ r.name = e.name
                    /\ document.parser = "instructions" =>
                        /\ Len(r.forms) = Len(WithEndTags(e.forms))
                        /\ \A j \in DOMAIN r.forms :
                            LET encodings ==
                                    SelectSeq(WithEndTags(WithEndTags(e.forms)[j].children),
                                              LAMBDA l : l.tag = "Encoding")
                            IN  r.forms[j].z80_opcode =
                                    IF encodings = <<>> THEN None
                                    ELSE Some(OpcodeString([l \in DOMAIN encodings |->
                                                                encodings[l].attrs]))
                    /\ document.parser = "registers" =>
                        r.flag_info =
                            [l \in DOMAIN WithEndTags(e.flags) |->
                                [bit |-> Unwrap(ParseUnsigned(WithEndTags(e.flags)[l].attrs.bit)),
                                 label |-> WithEndTags(e.flags)[l].attrs.label]]
                    /\ document.parser = "directives" =>
                        r.signatures =
                            [l \in DOMAIN WithEndTags(e.signatures) |->
                                unescape(WithEndTags(e.signatures)[l].attrs.sig)]

\* An Instruction element written as an empty-element tag and one with an
\* end tag, whose form holds an Encoding written as an empty-element tag,
\* were read: one record, one form, no opcode.
C38_Witness ==
    /\ GivenElementsParsed
    /\ document.parser = "instructions"
    /\ Len(document.elems) = 2
    /\ document.elems[1].self_closing
    /\ document.elems[1].name = <<"a">>
    /\ document.elems[2].name = <<"A">>
    /\ Len(document.elems[2].forms) = 1
    /\ document.elems[2].forms[1].children = <<XmlLeaf("Encoding", [byte |-> "2"], TRUE)>>
    /\ Len(result.value) = 1
    /\ result.value[1].name = <<"A">>
    /\ Len(result.value[1].forms) = 1
    /\ result.value[1].forms[1].z80_opcode = None

\* A register with a Flag written as an empty-element tag was returned
\* without a flag, although the bit of the Flag is not a number.
EmptyFlagIgnored ==
    /\ GivenElementsParsed
    /\ document.parser = "registers"
    /\ Len(document.elems) = 1
    /\ document.elems[1].flags = <<XmlLeaf("Flag", [bit |-> "x", label |-> "CF"], TRUE)>>
    /\ Len(result.value) = 1
    /\ result.value[1].flag_info = <<>>

\* A directive with a Signature with an end tag was returned with its
\* signature, after a Directive written as an empty-element tag.
EmptyDirectiveIgnored ==
    /\ GivenElementsParsed
    /\ document.parser = "directives"
    /\ Len(document.elems) = 2
    /\ document.elems[1].self_closing
    /\ document.elems[2].signatures = <<XmlLeaf("Signature", [sig |-> "&lt;"], FALSE)>>
    /\ Len(result.value) = 1
    /\ result.value[1].signatures = <<"<">>

====
